---- MODULE Spec2Model ----
(***************************************************************************)
(* Model of the OpenMetadata data-catalog provisioner:                     *)
(*   src/src/services/provision_service.py          (ProvisionService)     *)
(*   src/src/services/openmetadata_client_service.py (the catalog gateway) *)
(* The remote catalog is an entity store: one set of entities per entity   *)
(* type, each entity keyed by its fully-qualified name.  A client call     *)
(* either returns (and, for a write, has been applied) or raises (and has  *)
(* changed nothing).                                                       *)
(*                                                                         *)
(* An optional Python value is a sequence of length <= 1: None is <<>>,    *)
(* a present value v is <<v>>.  A string that the code splits on ":" is    *)
(* kept as the sequence of its segments; a string built by an f-string is  *)
(* kept as the tuple of its parts.                                         *)
(***************************************************************************)
EXTENDS Naturals, Sequences, FiniteSets, TLC

(***************************** bounds **************************************)
\* most components a descriptor lists
MaxPorts == 2
\* most requests served in one behaviour
MaxCalls == 2

(***************************** values **************************************)
None == <<>>
Some(v) == <<v>>
\* Python's "o or d" for an optional string or list whose default d is the empty one
OrElse(o, d) == IF o = None THEN d ELSE o[1]

Procs == {1, 2}
SeqProcs == {1}

RECURSIVE SeqsUpTo(_, _)
SeqsUpTo(S, n) ==
    IF n = 0 THEN {<<>>}
    ELSE LET shorter == SeqsUpTo(S, n - 1)
         IN  shorter \cup {Append(s, x) : s \in {t \in shorter : Len(t) = n - 1}, x \in S}

RECURSIVE Perms(_)
Perms(S) ==
    IF S = {} THEN {<<>>}
    ELSE UNION {{<<x>> \o s : s \in Perms(S \ {x})} : x \in S}

Range(s) == {s[k] : k \in 1..Len(s)}

(***************************** settings ************************************)
default_domain_type == "Aggregate"
default_storage_service_name == "generic"
default_storage_service_type == "CustomStorage"
api_base_url == "http://localhost:8585"

(***************************** descriptors *********************************)
CLASSIFICATION == "Classification"
GLOSSARY == "Glossary"

TagLabel(fqn, source) ==
    [tagFQN |-> fqn, labelType |-> "Manual", state |-> "Confirmed", source |-> source]

Tag1 == TagLabel("tag1", CLASSIFICATION)
Tag2 == TagLabel("tag2", CLASSIFICATION)
Term1 == TagLabel("term1", GLOSSARY)

Column(name, description, tags) ==
    [name |-> name, dataType |-> "STRING", description |-> description, tags |-> tags]

DpUrn == <<"urn", "dmb", "cmp", "healthcare", "vaccinations", "0">>

\* two tagged columns that repeat a tag, and one column without tags
PortA ==
    [id |-> DpUrn \o <<"a">>, name |-> "Port A", description |-> Some("first"),
     kind |-> "outputport", platform |-> Some("TestPlatform"), technology |-> Some("TestTech"),
     schema |-> Some(<<Column("c1", Some("d1"), Some(<<Tag1, Term1>>)),
                       Column("c2", None, None),
                       Column("c3", Some("d3"), Some(<<Tag1, Tag2>>))>>)]

\* no platform, no technology, columns without tags
PortB ==
    [id |-> DpUrn \o <<"b">>, name |-> "Port B", description |-> None,
     kind |-> "outputport", platform |-> None, technology |-> None,
     schema |-> Some(<<Column("c1", Some("d1"), None), Column("c2", None, Some(<<>>))>>)]

\* same id as PortA, other content, an empty schema
PortA2 ==
    [id |-> DpUrn \o <<"a">>, name |-> "Port A bis", description |-> Some("second"),
     kind |-> "outputport", platform |-> Some("TestPlatform"), technology |-> None,
     schema |-> Some(<<>>)]

OutputPorts == {PortA, PortB, PortA2}

\* labels that carry the name of an entity of the other kind, each of them twice
PortCrossed ==
    [id |-> DpUrn \o <<"x">>, name |-> "Port X", description |-> None,
     kind |-> "outputport", platform |-> None, technology |-> None,
     schema |-> Some(<<Column("c1", None, Some(<<TagLabel("term1", CLASSIFICATION),
                                                  TagLabel("tag1", GLOSSARY)>>)),
                       Column("c2", None, Some(<<TagLabel("tag1", GLOSSARY),
                                                  TagLabel("term1", CLASSIFICATION)>>))>>)]

DataProduct(components) ==
    [id |-> DpUrn, name |-> "Test DP", description |-> "Test Description",
     domain |-> "healthcare", components |-> components]

\* the descriptors served: up to MaxPorts different components, in any order
Descriptors ==
    {DataProduct(cs) : cs \in {s \in SeqsUpTo(OutputPorts, MaxPorts) :
                                  Cardinality(Range(s)) = Len(s)}}

\* urns too short for name derivation: a data product id of five segments, and an
\* output port id that lacks the component segment
ShortDpUrn == <<"urn", "dmb", "cmp", "healthcare", "vaccinations">>

PortShort ==
    [id |-> DpUrn, name |-> "Port short", description |-> None,
     kind |-> "outputport", platform |-> None, technology |-> None, schema |-> None]

ShortUrnDescriptors ==
    {[DataProduct(cs) EXCEPT !.id = ShortDpUrn] : cs \in {<<>>, <<PortA>>}}
    \cup {DataProduct(cs) : cs \in {<<PortShort>>, <<PortB, PortShort>>}}

CrossedDescriptors ==
    {DataProduct(cs) : cs \in {<<PortCrossed>>, <<PortA, PortCrossed>>, <<PortCrossed, PortB>>}}

\* a data product of another domain, with an output port of its own
OtherUrn == <<"urn", "dmb", "cmp", "finance", "payments", "0">>
OtherDescriptor ==
    [id |-> OtherUrn, name |-> "Other DP", description |-> "Other Description",
     domain |-> "finance",
     components |-> <<[PortB EXCEPT !.id = OtherUrn \o <<"a">>, !.name = "Other port"]>>]

\* a descriptor whose ids differ from those of DataProduct(<<PortA>>) in the first
\* three segments and in the segments after those a name is derived from
AliasDescriptor ==
    [id |-> <<"URN", "x", "y", "healthcare", "vaccinations", "0", "v2">>,
     name |-> "Alias DP", description |-> "Alias Description", domain |-> "healthcare",
     components |-> <<[PortB EXCEPT !.id = <<"URN", "x", "y", "healthcare", "vaccinations",
                                             "0", "a", "v2">>,
                                   !.name = "Alias port"]>>]

ProductDescriptors ==
    {DataProduct(<<PortA>>), DataProduct(<<PortB>>), OtherDescriptor, AliasDescriptor}

\* the descriptors a request can carry
Requested == Descriptors \cup ShortUrnDescriptors

NoDp == [id |-> <<>>, name |-> "", description |-> "", domain |-> "", components |-> <<>>]

get_output_ports(dp) == dp.components

(***************************** identifier codec ****************************)
\* id.split(":")[k] for a 0-based k raises IndexError when the id is too short
IndexError == "list index out of range"

\* str.split(":") of a text given as its characters: the pieces between the colons,
\* empty pieces included; a text without a colon is its own single piece
RECURSIVE split(_)
split(text) ==
    IF \A k \in 1..Len(text) : text[k] # ":"
    THEN <<text>>
    ELSE LET colon == CHOOSE k \in 1..Len(text) :
                          text[k] = ":" /\ \A j \in 1..(k - 1) : text[j] # ":"
         IN  <<SubSeq(text, 1, colon - 1)>> \o split(SubSeq(text, colon + 1, Len(text)))

\* the text of f"{a}:{b}:{c}", for pieces given as their characters
RECURSIVE FString(_)
FString(parts) ==
    IF Len(parts) = 0 THEN <<>>
    ELSE IF Len(parts) = 1 THEN parts[1]
    ELSE parts[1] \o <<":">> \o FString(Tail(parts))

\* a derivation that is content with five segments and repeats the last one
_get_dp_name_from_id_FromFive(id) ==
    IF Len(id) >= 5
    THEN [raised |-> None, name |-> <<id[4], id[5], id[IF Len(id) >= 6 THEN 6 ELSE 5]>>]
    ELSE [raised |-> Some(IndexError), name |-> <<>>]

\* a derivation that never fails: the segments a short id lacks are left empty
_get_dp_name_from_id_Padded(id) ==
    [raised |-> None,
     name |-> [k \in 1..3 |-> IF k + 3 <= Len(id) THEN id[k + 3] ELSE ""]]

_get_dp_name_from_id(id) ==
    IF Len(id) >= 6
    THEN [raised |-> None, name |-> <<id[4], id[5], id[6]>>]
    ELSE [raised |-> Some(IndexError), name |-> <<>>]

\* a derivation of the component name that stops at the data product's segments
_get_component_name_from_id_DpName(id) ==
    IF Len(id) >= 7
    THEN [raised |-> None, name |-> <<id[4], id[5], id[6]>>]
    ELSE [raised |-> Some(IndexError), name |-> <<>>]

\* a derivation that keeps every segment from the fourth on
_get_component_name_from_id_Tail(id) ==
    IF Len(id) >= 7
    THEN [raised |-> None, name |-> SubSeq(id, 4, Len(id))]
    ELSE [raised |-> Some(IndexError), name |-> <<>>]

_get_component_name_from_id(id) ==
    IF Len(id) >= 7
    THEN [raised |-> None, name |-> <<id[4], id[5], id[6], id[7]>>]
    ELSE [raised |-> Some(IndexError), name |-> <<>>]

(***************************** the remote catalog **************************)
EntityTypes == {"storageService", "customProperty", "domain", "dataProduct", "container"}

EmptyCatalog == [t \in EntityTypes |-> {}]

\* OpenMetadata.create_or_update: an upsert keyed by fully-qualified name
ClientCreateOrUpdate(cat, etype, ent) ==
    [cat EXCEPT ![etype] = {e \in @ : e.fqn # ent.fqn} \cup {ent}]

\* OpenMetadata.get_by_name: the entity, or None when there is none of that name
ClientGetByName(cat, etype, fqn) ==
    IF \E e \in cat[etype] : e.fqn = fqn
    THEN Some(CHOOSE e \in cat[etype] : e.fqn = fqn)
    ELSE None

\* OpenMetadata.delete(entity, entity_id, recursive, hard_delete); the catalog's id
\* of an entity is carried by its fully-qualified name
ClientDelete(cat, etype, id) ==
    [cat EXCEPT ![etype] = {e \in @ : e.fqn # id}]

\* what the underlying client can raise
Details == {"API Error", "Timeout"}

\* which client call of a gateway operation raises (0: none), and with what text
NoFault == [at |-> 0, detail |-> ""]
Faults(n) == {NoFault} \cup {[at |-> k, detail |-> d] : k \in 1..n, d \in Details}

\* one call of the underlying client: what it sent (a write), what it answered (a
\* read that returned) and what it raised
ClientCall(call, etype, key, sent, returned, raised) ==
    [call |-> call, etype |-> etype, key |-> key, sent |-> sent, returned |-> returned,
     raised |-> raised]

ClientWrite(etype, ent, raised) ==
    ClientCall("create_or_update", etype, ent.fqn, Some(ent), None, raised)

\* f"{prefix}{subject}. Details: {str(e)}"
ErrorMessage(prefix, subject, detail) == <<prefix>> \o subject \o <<". Details: ", detail>>

Raised(cat, msg, client) == [cat |-> cat, raised |-> Some(msg), client |-> client]
Returned(cat, client) == [cat |-> cat, raised |-> None, client |-> client]

(***************************** catalog gateway *****************************)
StorageServiceFqn == <<default_storage_service_name>>

create_or_update_generic_storage_service(cat, f) ==
    LET create_storage_service ==
            [fqn |-> StorageServiceFqn, name |-> default_storage_service_name,
             serviceType |-> default_storage_service_type]
        prefix == "Failed to create or update storage service "
    IN  IF f.at = 1
        THEN Raised(cat, ErrorMessage(prefix, StorageServiceFqn, f.detail),
                    <<ClientWrite("storageService", create_storage_service, Some(f.detail))>>)
        ELSE Returned(ClientCreateOrUpdate(cat, "storageService", create_storage_service),
                      <<ClientWrite("storageService", create_storage_service, None)>>)

CustomAttributeNames == <<"kind", "platform", "technology">>
StringType == [id |-> "string-type-id", name |-> "string"]
StringTypeMissing ==
    "Unable to retrieve the string type definition. Please contact the platform team."

CustomProperty(type_name, string_type) ==
    [fqn |-> <<"container", ".", type_name>>, entity_type |-> "container",
     name |-> type_name, propertyType |-> [id |-> string_type.id, type |-> string_type.name]]

RECURSIVE UpsertCustomProperties(_, _, _)
UpsertCustomProperties(cat, n, string_type) ==
    IF n = 0 THEN cat
    ELSE ClientCreateOrUpdate(UpsertCustomProperties(cat, n - 1, string_type),
                              "customProperty",
                              CustomProperty(CustomAttributeNames[n], string_type))

\* a bootstrap that upserts the properties without a type when the string type is
\* not resolved
create_or_update_container_custom_attributes_Untyped(cat, string_type, f) ==
    LET prefix == "Failed to create or update container custom attributes"
        type == OrElse(string_type, [id |-> "", name |-> ""])
        get(r) == ClientCall("get", "type", <<"string">>, None,
                             IF r = None THEN string_type ELSE None, r)
        upsert(k, r) ==
            ClientCall("create_or_update_custom_property", "customProperty",
                       <<"container", ".", CustomAttributeNames[k]>>,
                       Some(CustomProperty(CustomAttributeNames[k], type)), None, r)
        upserts(n) == [k \in 1..n |-> upsert(k, None)]
    IN  IF f.at = 1
        THEN Raised(cat, ErrorMessage(prefix, <<>>, f.detail), <<get(Some(f.detail))>>)
        ELSE IF f.at \in 2..4
        THEN Raised(UpsertCustomProperties(cat, f.at - 2, type),
                    ErrorMessage(prefix, <<>>, f.detail),
                    <<get(None)>> \o upserts(f.at - 2) \o <<upsert(f.at - 1, Some(f.detail))>>)
        ELSE Returned(UpsertCustomProperties(cat, 3, type),
                      <<get(None)>> \o upserts(3))

\* string_type: what GET /metadata/types/name/string answers (None: nothing usable);
\* client call 1 is that GET, calls 2..4 are the three custom-property upserts
create_or_update_container_custom_attributes(cat, string_type, f) ==
    LET prefix == "Failed to create or update container custom attributes"
        get(r) == ClientCall("get", "type", <<"string">>, None,
                             IF r = None THEN string_type ELSE None, r)
        upsert(k, r) ==
            ClientCall("create_or_update_custom_property", "customProperty",
                       <<"container", ".", CustomAttributeNames[k]>>,
                       Some(CustomProperty(CustomAttributeNames[k], string_type[1])), None, r)
        upserts(n) == [k \in 1..n |-> upsert(k, None)]
    IN  IF f.at = 1
        THEN Raised(cat, ErrorMessage(prefix, <<>>, f.detail), <<get(Some(f.detail))>>)
        ELSE IF string_type = None
        THEN Raised(cat, ErrorMessage(prefix, <<>>, StringTypeMissing), <<get(None)>>)
        ELSE IF f.at \in 2..4
        THEN Raised(UpsertCustomProperties(cat, f.at - 2, string_type[1]),
                    ErrorMessage(prefix, <<>>, f.detail),
                    <<get(None)>> \o upserts(f.at - 2) \o <<upsert(f.at - 1, Some(f.detail))>>)
        ELSE Returned(UpsertCustomProperties(cat, 3, string_type[1]),
                      <<get(None)>> \o upserts(3))

\* a gateway that creates the domain instead of upserting it: the catalog refuses
\* to create a domain whose name is taken
create_or_update_domain_CreateOnly(cat, name, f) ==
    LET create_domain ==
            [fqn |-> <<name>>, name |-> name, domainType |-> default_domain_type,
             description |-> name]
        prefix == "Failed to create or update domain "
        refused == IF f.at = 1 THEN f.detail ELSE "Entity already exists"
    IN  IF f.at = 1 \/ ClientGetByName(cat, "domain", <<name>>) # None
        THEN Raised(cat, ErrorMessage(prefix, <<name>>, refused),
                    <<ClientWrite("domain", create_domain, Some(refused))>>)
        ELSE Returned(ClientCreateOrUpdate(cat, "domain", create_domain),
                      <<ClientWrite("domain", create_domain, None)>>)

create_or_update_domain(cat, name, f) ==
    LET create_domain ==
            [fqn |-> <<name>>, name |-> name, domainType |-> default_domain_type,
             description |-> name]
        prefix == "Failed to create or update domain "
    IN  IF f.at = 1
        THEN Raised(cat, ErrorMessage(prefix, <<name>>, f.detail),
                    <<ClientWrite("domain", create_domain, Some(f.detail))>>)
        ELSE Returned(ClientCreateOrUpdate(cat, "domain", create_domain),
                      <<ClientWrite("domain", create_domain, None)>>)

\* a gateway that creates the data product instead of upserting it: the catalog
\* refuses to create an entity whose name is taken
create_or_update_dp_CreateOnly(cat, dp, f) ==
    LET derived == _get_dp_name_from_id(dp.id)
        create_dp ==
            [fqn |-> derived.name, name |-> derived.name, displayName |-> dp.name,
             description |-> dp.description, domain |-> dp.domain]
        prefix == "Failed to create or update DP "
        refused == IF f.at = 1 THEN f.detail ELSE "Entity already exists"
    IN  IF derived.raised # None
        THEN Raised(cat, ErrorMessage(prefix, dp.id, derived.raised[1]), <<>>)
        ELSE IF f.at = 1 \/ ClientGetByName(cat, "dataProduct", derived.name) # None
        THEN Raised(cat, ErrorMessage(prefix, dp.id, refused),
                    <<ClientWrite("dataProduct", create_dp, Some(refused))>>)
        ELSE Returned(ClientCreateOrUpdate(cat, "dataProduct", create_dp),
                      <<ClientWrite("dataProduct", create_dp, None)>>)

\* a gateway that, with the data product, replaces what belongs to it: the
\* containers of the product are removed before the output ports are written
create_or_update_dp_Replacing(cat, dp, f) ==
    LET derived == _get_dp_name_from_id(dp.id)
        create_dp ==
            [fqn |-> derived.name, name |-> derived.name, displayName |-> dp.name,
             description |-> dp.description, domain |-> dp.domain]
        prefix == "Failed to create or update DP "
        replaced == [ClientCreateOrUpdate(cat, "dataProduct", create_dp) EXCEPT
                        !["container"] = {e \in @ : e.dataProducts # <<derived.name>>}]
    IN  IF derived.raised # None
        THEN Raised(cat, ErrorMessage(prefix, dp.id, derived.raised[1]), <<>>)
        ELSE IF f.at = 1
        THEN Raised(cat, ErrorMessage(prefix, dp.id, f.detail),
                    <<ClientWrite("dataProduct", create_dp, Some(f.detail))>>)
        ELSE Returned(replaced, <<ClientWrite("dataProduct", create_dp, None)>>)

create_or_update_dp(cat, dp, f) ==
    LET derived == _get_dp_name_from_id(dp.id)
        create_dp ==
            [fqn |-> derived.name, name |-> derived.name, displayName |-> dp.name,
             description |-> dp.description, domain |-> dp.domain]
        prefix == "Failed to create or update DP "
    IN  IF derived.raised # None
        THEN Raised(cat, ErrorMessage(prefix, dp.id, derived.raised[1]), <<>>)
        ELSE IF f.at = 1
        THEN Raised(cat, ErrorMessage(prefix, dp.id, f.detail),
                    <<ClientWrite("dataProduct", create_dp, Some(f.detail))>>)
        ELSE Returned(ClientCreateOrUpdate(cat, "dataProduct", create_dp),
                      <<ClientWrite("dataProduct", create_dp, None)>>)

_to_om_tag_list(c) ==
    LET tags == OrElse(c.tags, <<>>)
    IN  [k \in 1..Len(tags) |->
            [tagFQN |-> tags[k].tagFQN, labelType |-> tags[k].labelType,
             source |-> tags[k].source, state |-> tags[k].state]]

_to_om_column_list(op) ==
    LET schema == OrElse(op.schema, <<>>)
    IN  [k \in 1..Len(schema) |->
            [name |-> schema[k].name, dataType |-> schema[k].dataType,
             description |-> OrElse(schema[k].description, ""),
             tags |-> _to_om_tag_list(schema[k])]]

\* service name + "." + component name
ContainerFqn(name) == <<default_storage_service_name, ".">> \o name

\* a gateway that names the container after the data product of the output port
create_or_update_op_DpName(cat, dp, op, f) ==
    LET derived == _get_dp_name_from_id(op.id)
        dp_name == _get_dp_name_from_id(dp.id)
        create_op ==
            [fqn |-> ContainerFqn(derived.name), name |-> derived.name,
             displayName |-> op.name, description |-> op.description,
             domain |-> dp.domain, dataProducts |-> <<dp_name.name>>,
             dataModel |-> _to_om_column_list(op),
             service |-> default_storage_service_name,
             extension |-> [kind |-> op.kind, platform |-> OrElse(op.platform, ""),
                            technology |-> OrElse(op.technology, "")]]
        prefix == "Failed to create or update Output Port "
    IN  IF derived.raised # None \/ dp_name.raised # None
        THEN Raised(cat, ErrorMessage(prefix, op.id, IndexError), <<>>)
        ELSE IF f.at = 1
        THEN Raised(cat, ErrorMessage(prefix, op.id, f.detail),
                    <<ClientWrite("container", create_op, Some(f.detail))>>)
        ELSE Returned(ClientCreateOrUpdate(cat, "container", create_op),
                      <<ClientWrite("container", create_op, None)>>)

create_or_update_op(cat, dp, op, f) ==
    LET derived == _get_component_name_from_id(op.id)
        dp_name == _get_dp_name_from_id(dp.id)
        create_op ==
            [fqn |-> ContainerFqn(derived.name), name |-> derived.name,
             displayName |-> op.name, description |-> op.description,
             domain |-> dp.domain, dataProducts |-> <<dp_name.name>>,
             dataModel |-> _to_om_column_list(op),
             service |-> default_storage_service_name,
             extension |-> [kind |-> op.kind, platform |-> OrElse(op.platform, ""),
                            technology |-> OrElse(op.technology, "")]]
        prefix == "Failed to create or update Output Port "
    IN  IF derived.raised # None \/ dp_name.raised # None
        THEN Raised(cat, ErrorMessage(prefix, op.id, IndexError), <<>>)
        ELSE IF f.at = 1
        THEN Raised(cat, ErrorMessage(prefix, op.id, f.detail),
                    <<ClientWrite("container", create_op, Some(f.detail))>>)
        ELSE Returned(ClientCreateOrUpdate(cat, "container", create_op),
                      <<ClientWrite("container", create_op, None)>>)

\* a gateway that issues the delete whatever the lookup answered
DeleteIfExists_Always(cat, etype, fqn, prefix, subject, f) ==
    LET existing == ClientGetByName(cat, etype, fqn)
        get(r) == ClientCall("get_by_name", etype, fqn, None,
                             IF r = None THEN existing ELSE None, r)
        delete(r) == ClientCall("delete", etype, fqn, None, None, r)
    IN  IF f.at = 1
        THEN Raised(cat, ErrorMessage(prefix, subject, f.detail), <<get(Some(f.detail))>>)
        ELSE IF f.at = 2
        THEN Raised(cat, ErrorMessage(prefix, subject, f.detail),
                    <<get(None), delete(Some(f.detail))>>)
        ELSE Returned(ClientDelete(cat, etype, fqn), <<get(None), delete(None)>>)

\* shared by delete_dp and delete_op: client call 1 is get_by_name, call 2 the
\* delete, issued only for an entity that was found
DeleteIfExists(cat, etype, fqn, prefix, subject, f) ==
    LET existing == ClientGetByName(cat, etype, fqn)
        get(r) == ClientCall("get_by_name", etype, fqn, None,
                             IF r = None THEN existing ELSE None, r)
        delete(r) == ClientCall("delete", etype, existing[1].fqn, None, None, r)
    IN  IF f.at = 1
        THEN Raised(cat, ErrorMessage(prefix, subject, f.detail), <<get(Some(f.detail))>>)
        ELSE IF existing = None
        THEN Returned(cat, <<get(None)>>)
        ELSE IF f.at = 2
        THEN Raised(cat, ErrorMessage(prefix, subject, f.detail),
                    <<get(None), delete(Some(f.detail))>>)
        ELSE Returned(ClientDelete(cat, etype, existing[1].fqn), <<get(None), delete(None)>>)

\* a gateway that deletes the data product recursively: the containers that belong
\* to it go with it
delete_dp_Recursive(cat, dp, f) ==
    LET derived == _get_dp_name_from_id(dp.id)
        prefix == "Failed to delete DP "
        deleted == DeleteIfExists(cat, "dataProduct", derived.name, prefix, dp.id, f)
    IN  IF derived.raised # None
        THEN Raised(cat, ErrorMessage(prefix, dp.id, derived.raised[1]), <<>>)
        ELSE [deleted EXCEPT !.cat["container"] =
                 IF deleted.raised = None
                 THEN {e \in @ : e.dataProducts # <<derived.name>>}
                 ELSE @]

delete_dp(cat, dp, f) ==
    LET derived == _get_dp_name_from_id(dp.id)
        prefix == "Failed to delete DP "
    IN  IF derived.raised # None
        THEN Raised(cat, ErrorMessage(prefix, dp.id, derived.raised[1]), <<>>)
        ELSE DeleteIfExists(cat, "dataProduct", derived.name, prefix, dp.id, f)

\* a gateway that looks the container up by the component name alone
delete_op_BareName(cat, op, f) ==
    LET derived == _get_component_name_from_id(op.id)
        prefix == "Failed to delete Output Port "
    IN  IF derived.raised # None
        THEN Raised(cat, ErrorMessage(prefix, op.id, derived.raised[1]), <<>>)
        ELSE DeleteIfExists(cat, "container", derived.name, prefix, op.id, f)

delete_op(cat, op, f) ==
    LET derived == _get_component_name_from_id(op.id)
        prefix == "Failed to delete Output Port "
    IN  IF derived.raised # None
        THEN Raised(cat, ErrorMessage(prefix, op.id, derived.raised[1]), <<>>)
        ELSE DeleteIfExists(cat, "container", ContainerFqn(derived.name), prefix, op.id, f)

get_base_url == <<api_base_url, "/">>

\* what the catalog can list as classification tags and as glossary terms: each
\* entity is given by its fullyQualifiedName, which an entity may lack
CatalogTags == {Some("tag1"), Some("tag2"), None}
CatalogTerms == {Some("term1"), None}

\* a gateway that makes sure the storage service exists before it lists the tags
get_all_classification_tags_Ensuring(cat, listing, f) ==
    LET ensured == create_or_update_generic_storage_service(cat, NoFault)
        list(returned, r) == ClientCall("list_all_entities", "tag", <<>>, None, returned, r)
    IN  IF f.at = 1
        THEN Raised(ensured.cat,
                    ErrorMessage("Failed to retrieve classification tags", <<>>, f.detail),
                    ensured.client \o <<list(None, Some(f.detail))>>)
        ELSE [cat |-> ensured.cat, raised |-> None, value |-> listing,
              client |-> ensured.client \o <<list(Some(listing), None)>>]

get_all_classification_tags(cat, listing, f) ==
    IF f.at = 1
    THEN Raised(cat, ErrorMessage("Failed to retrieve classification tags", <<>>, f.detail),
                <<ClientCall("list_all_entities", "tag", <<>>, None, None, Some(f.detail))>>)
    ELSE [cat |-> cat, raised |-> None, value |-> listing,
          client |-> <<ClientCall("list_all_entities", "tag", <<>>, None, Some(listing), None)>>]

get_all_glossary_terms(cat, listing, f) ==
    IF f.at = 1
    THEN Raised(cat, ErrorMessage("Failed to retrieve glossary terms", <<>>, f.detail),
                <<ClientCall("list_all_entities", "glossaryTerm", <<>>, None, None, Some(f.detail))>>)
    ELSE [cat |-> cat, raised |-> None, value |-> listing,
          client |-> <<ClientCall("list_all_entities", "glossaryTerm", <<>>, None, Some(listing), None)>>]

get_classification_tag(cat, fqn, existing, f) ==
    LET get(returned, r) == ClientCall("get_by_name", "tag", <<fqn>>, None, returned, r)
    IN  IF f.at = 1
        THEN Raised(cat, ErrorMessage("Failed to retrieve classification tag ", <<fqn>>, f.detail),
                    <<get(None, Some(f.detail))>>)
        ELSE [cat |-> cat, raised |-> None, value |-> existing,
              client |-> <<get(existing, None)>>]

\* a gateway that lets the exception of the client through as it is
get_glossary_term_Unwrapped(cat, fqn, existing, f) ==
    LET get(returned, r) == ClientCall("get_by_name", "glossaryTerm", <<fqn>>, None, returned, r)
    IN  IF f.at = 1
        THEN Raised(cat, <<f.detail>>, <<get(None, Some(f.detail))>>)
        ELSE [cat |-> cat, raised |-> None, value |-> existing,
              client |-> <<get(existing, None)>>]

get_glossary_term(cat, fqn, existing, f) ==
    LET get(returned, r) == ClientCall("get_by_name", "glossaryTerm", <<fqn>>, None, returned, r)
    IN  IF f.at = 1
        THEN Raised(cat, ErrorMessage("Failed to retrieve glossary term ", <<fqn>>, f.detail),
                    <<get(None, Some(f.detail))>>)
        ELSE [cat |-> cat, raised |-> None, value |-> existing,
              client |-> <<get(existing, None)>>]

(***************************** outcomes ************************************)
COMPLETED == "COMPLETED"
Pending == [type |-> "pending"]
NoError == [type |-> "None"]
SystemErr(error) == [type |-> "SystemErr", error |-> error]
ValidationError(errors) == [type |-> "ValidationError", errors |-> errors]
ProvisioningStatus(status, info) ==
    [type |-> "ProvisioningStatus", status |-> status, result |-> "", info |-> info]
\* an exception that no handler caught: the call returns nothing, the exception
\* reaches the caller of the service
UnhandledException(exc) == [type |-> "exception", exc |-> exc]

\* a public info that links to the page of a component
\* urllib.parse.quote of a name given by its segments: the colons between the
\* segments become %3A (the segments hold letters, digits, "-", "_" and "." only)
RECURSIVE quote(_)
quote(name) ==
    IF Len(name) <= 1 THEN name
    ELSE <<name[1], "%3A">> \o quote(Tail(name))

\* a public info that is keyed by the derived name of the data product
_get_public_info_KeyedByName(dp) ==
    LET derived == _get_dp_name_from_id(dp.id)
    IN  IF derived.raised # None
        THEN [raised |-> derived.raised, info |-> None]
        ELSE [raised |-> None,
              info |-> Some([key |-> derived.name, type |-> "string",
                             label |-> "OpenMetadata URL",
                             value |-> "View in OpenMetadata",
                             href |-> get_base_url \o <<"dataProduct/">>
                                      \o quote(derived.name)])]

_get_public_info_ComponentName(dp) ==
    LET derived == _get_component_name_from_id(dp.id)
    IN  IF derived.raised # None
        THEN [raised |-> derived.raised, info |-> None]
        ELSE [raised |-> None,
              info |-> Some([key |-> dp.id, type |-> "string", label |-> "OpenMetadata URL",
                             value |-> "View in OpenMetadata",
                             href |-> get_base_url \o <<"dataProduct/">>
                                      \o quote(derived.name)])]

\* runs outside the gateway's try blocks: the IndexError of the name derivation is
\* not a ServiceError
_get_public_info(dp) ==
    LET derived == _get_dp_name_from_id(dp.id)
    IN  IF derived.raised # None
        THEN [raised |-> derived.raised, info |-> None]
        ELSE [raised |-> None,
              info |-> Some([key |-> dp.id, type |-> "string", label |-> "OpenMetadata URL",
                             value |-> "View in OpenMetadata",
                             href |-> get_base_url \o <<"dataProduct/">>
                                      \o quote(derived.name)])]

(***************************** descriptor parser ***************************)
DATAPRODUCT_DESCRIPTOR == "DATAPRODUCT_DESCRIPTOR"
DATAPRODUCT_DESCRIPTOR_WITH_RESULTS == "DATAPRODUCT_DESCRIPTOR_WITH_RESULTS"
COMPONENT_DESCRIPTOR == "COMPONENT_DESCRIPTOR"
DescriptorKind ==
    {DATAPRODUCT_DESCRIPTOR, DATAPRODUCT_DESCRIPTOR_WITH_RESULTS, COMPONENT_DESCRIPTOR}

\* what a YAML text denotes: a mapping (its keys, and the data product its values
\* spell out), a scalar, or nothing
Mapping(keys, content) == [kind |-> "mapping", keys |-> keys, content |-> content]
Scalar == [kind |-> "scalar", keys |-> {}, content |-> NoDp]
NullDocument == [kind |-> "null", keys |-> {}, content |-> NoDp]

\* a descriptor text: YAML that denotes a document, or text that is not YAML
Text(document) == [syntax |-> "sound", document |-> document]
MalformedText == [syntax |-> "malformed", document |-> NullDocument]
NoText == Text(NullDocument)

\* the fields the DataProduct model requires, in the order of the model
DataProductFields == <<"id", "name", "description", "domain", "components">>

\* the descriptor of dp, and the same descriptor with the name under another key
YamlOf(dp) == Text(Mapping(Range(DataProductFields), dp))
YamlWithoutName(dp) ==
    Text(Mapping((Range(DataProductFields) \ {"name"}) \cup {"invalid_field"},
                 [dp EXCEPT !.name = ""]))

\* the data products the endpoints are asked about
ApiDescriptors ==
    {DataProduct(<<>>), DataProduct(<<PortA>>), DataProduct(<<PortB>>),
     [DataProduct(<<PortA>>) EXCEPT !.id = ShortDpUrn]}

DescriptorTexts ==
    {MalformedText, Text(Scalar), Text(NullDocument), YamlWithoutName(DataProduct(<<PortA>>))}
    \cup {YamlOf(dp) : dp \in ApiDescriptors}

ProvisioningRequest(descriptorKind, descriptor, removeData) ==
    [descriptorKind |-> descriptorKind, descriptor |-> descriptor, removeData |-> removeData]

ProvisioningRequests ==
    {ProvisioningRequest(k, d, r) :
        k \in DescriptorKind, d \in DescriptorTexts, r \in {None, Some(TRUE), Some(FALSE)}}

\* str(ex) of what yaml.safe_load and the model constructor raise
YAMLErrorText == "mapping values are not allowed here"
TypeErrorText == "argument after ** must be a mapping"

yaml_safe_load(text) ==
    IF text.syntax = "malformed"
    THEN [raised |-> Some(YAMLErrorText), value |-> NullDocument]
    ELSE [raised |-> None, value |-> text.document]

FailedToParse == "Failed to parse the descriptor"
Parsed(dp) == [type |-> "DataProduct", dp |-> dp]

\* builds the model from the document: what is not a mapping raises, a mapping that
\* lacks required fields is answered with a ValidationError that lists them
parse_yaml_with_model(document) ==
    LET missing == SelectSeq(DataProductFields, LAMBDA k : k \notin document.keys)
        causes == [k \in 1..Len(missing) |-> <<missing[k], ": Field required">>]
    IN  IF document.kind # "mapping"
        THEN [raised |-> Some(TypeErrorText), value |-> Pending]
        ELSE IF missing # <<>>
        THEN [raised |-> None, value |-> ValidationError(<<<<FailedToParse>>>> \o causes)]
        ELSE [raised |-> None, value |-> Parsed(document.content)]

UnexpectedKind(descriptorKind) ==
    <<"Expecting a DATAPRODUCT_DESCRIPTOR but got a ", descriptorKind,
      " instead; please check with the platform team.">>
UnableToParse == "Unable to parse the descriptor."

\* an unpacking that reads the descriptor before it looks at the kind
unpack_provisioning_request_ParseFirst(provisioning_request) ==
    LET descriptor_dict == yaml_safe_load(provisioning_request.descriptor)
        data_product_or_error == parse_yaml_with_model(descriptor_dict.value)
    IN  IF descriptor_dict.raised # None
        THEN ValidationError(<<<<UnableToParse>>, <<descriptor_dict.raised[1]>>>>)
        ELSE IF data_product_or_error.raised # None
        THEN ValidationError(<<<<UnableToParse>>, <<data_product_or_error.raised[1]>>>>)
        ELSE IF provisioning_request.descriptorKind
                    \notin {DATAPRODUCT_DESCRIPTOR, DATAPRODUCT_DESCRIPTOR_WITH_RESULTS}
        THEN ValidationError(<<UnexpectedKind(provisioning_request.descriptorKind)>>)
        ELSE data_product_or_error.value

\* an unpacking that catches the errors of the YAML reader only
unpack_provisioning_request_YamlErrorsOnly(provisioning_request) ==
    LET descriptor_dict == yaml_safe_load(provisioning_request.descriptor)
        data_product_or_error == parse_yaml_with_model(descriptor_dict.value)
    IN  IF provisioning_request.descriptorKind
                \notin {DATAPRODUCT_DESCRIPTOR, DATAPRODUCT_DESCRIPTOR_WITH_RESULTS}
        THEN ValidationError(<<UnexpectedKind(provisioning_request.descriptorKind)>>)
        ELSE IF descriptor_dict.raised # None
        THEN ValidationError(<<<<UnableToParse>>, <<descriptor_dict.raised[1]>>>>)
        ELSE IF data_product_or_error.raised # None
        THEN UnhandledException(data_product_or_error.raised[1])
        ELSE data_product_or_error.value

unpack_provisioning_request(provisioning_request) ==
    LET descriptor_dict == yaml_safe_load(provisioning_request.descriptor)
        data_product_or_error == parse_yaml_with_model(descriptor_dict.value)
    IN  IF provisioning_request.descriptorKind
                \notin {DATAPRODUCT_DESCRIPTOR, DATAPRODUCT_DESCRIPTOR_WITH_RESULTS}
        THEN ValidationError(<<UnexpectedKind(provisioning_request.descriptorKind)>>)
        ELSE IF descriptor_dict.raised # None
        THEN ValidationError(<<<<UnableToParse>>, <<descriptor_dict.raised[1]>>>>)
        ELSE IF data_product_or_error.raised # None
        THEN ValidationError(<<<<UnableToParse>>, <<data_product_or_error.raised[1]>>>>)
        ELSE data_product_or_error.value

Unpacked(dp, remove_data) == [type |-> "Tuple", dp |-> dp, remove_data |-> remove_data]

\* an unpacking that takes an absent removeData for true
unpack_unprovisioning_request_DefaultTrue(provisioning_request) ==
    LET unpacked_request == unpack_provisioning_request(provisioning_request)
        remove_data == IF provisioning_request.removeData # None
                       THEN provisioning_request.removeData[1]
                       ELSE TRUE
    IN  IF unpacked_request.type = "DataProduct"
        THEN Unpacked(unpacked_request.dp, remove_data)
        ELSE unpacked_request

unpack_unprovisioning_request(provisioning_request) ==
    LET unpacked_request == unpack_provisioning_request(provisioning_request)
        remove_data == IF provisioning_request.removeData # None
                       THEN provisioning_request.removeData[1]
                       ELSE FALSE
    IN  IF unpacked_request.type = "DataProduct"
        THEN Unpacked(unpacked_request.dp, remove_data)
        ELSE unpacked_request

\* the envelope of an ACL update: the subjects asking for access, and the request
\* and result of the provisioning the update refers to
ProvisionInfo(request, result) == [request |-> request, result |-> result]
UpdateAclRequest(refs, provisionInfo) == [refs |-> refs, provisionInfo |-> provisionInfo]
Refs ==
    {<<>>, <<"user:testuser">>, <<"bigData">>, <<"group:dev">>,
     <<"user:testuser", "bigData">>, <<"bigData", "user:testuser">>,
     <<"user:testuser", "user:testuser">>, <<"group:dev", "bigData", "user:testuser">>}
UpdateAclRequests ==
    {UpdateAclRequest(refs, ProvisionInfo(d, "result_prov")) :
        refs \in Refs, d \in DescriptorTexts}

UnexpectedAclError == "An unexpected error occurred while parsing the update acl request."
UnpackedAcl(dp, refs) == [type |-> "Tuple", dp |-> dp, refs |-> refs]

\* an unpacking that hands the subjects over last to first
unpack_update_acl_request_RefsReversed(update_acl_request) ==
    LET request == yaml_safe_load(update_acl_request.provisionInfo.request)
        data_product == parse_yaml_with_model(request.value)
        refs == update_acl_request.refs
    IN  IF request.raised # None
        THEN ValidationError(<<<<UnableToParse>>, <<request.raised[1]>>>>)
        ELSE IF data_product.raised # None
        THEN ValidationError(<<<<UnableToParse>>, <<data_product.raised[1]>>>>)
        ELSE IF data_product.value.type = "DataProduct"
        THEN UnpackedAcl(data_product.value.dp,
                         [k \in 1..Len(refs) |-> refs[Len(refs) + 1 - k]])
        ELSE IF data_product.value.type = "ValidationError"
        THEN data_product.value
        ELSE ValidationError(<<<<UnexpectedAclError>>>>)

unpack_update_acl_request(update_acl_request) ==
    LET request == yaml_safe_load(update_acl_request.provisionInfo.request)
        data_product == parse_yaml_with_model(request.value)
    IN  IF request.raised # None
        THEN ValidationError(<<<<UnableToParse>>, <<request.raised[1]>>>>)
        ELSE IF data_product.raised # None
        THEN ValidationError(<<<<UnableToParse>>, <<data_product.raised[1]>>>>)
        ELSE IF data_product.value.type = "DataProduct"
        THEN UnpackedAcl(data_product.value.dp, update_acl_request.refs)
        ELSE IF data_product.value.type = "ValidationError"
        THEN data_product.value
        ELSE ValidationError(<<<<UnexpectedAclError>>>>)

ValidationResult(valid, error) ==
    [type |-> "ValidationResult", valid |-> valid, error |-> error]

(***************************** state ***************************************)
VARIABLES
    catalog,    \* the remote catalog's entities, by entity type
    pc,         \* per request slot: where its handler stands
    request,    \* per request slot: the call being served
    idx,        \* per request slot: position in the loop over output ports
    calls,      \* per request slot: gateway operations issued by the call, in order
    client,     \* per request slot: client calls issued by the call, in order
    listed,     \* per request slot: what the catalog listed to validate
    result,     \* per request slot: what the call returned
    cat0,       \* per request slot: the catalog when the call started
    prev,       \* the call served before the current one
    ncalls,     \* calls started so far
    http,       \* per request slot: the request an endpoint received, and its unpacking
    codec,      \* an id given to the identifier codec, and the names derived from it
    twin        \* the catalog a call left, kept while the call is made again from its start

vars == <<catalog, pc, request, idx, calls, client, listed, result, cat0, prev, ncalls,
          http, codec, twin>>

NoPort == [id |-> <<>>, name |-> "", description |-> None, kind |-> "",
           platform |-> None, technology |-> None, schema |-> None]
NoRequest == [kind |-> "none", dp |-> NoDp, remove_data |-> FALSE]
NoListing == [tags |-> {}, terms |-> {}]
NoPrev == [kind |-> "none", dp |-> NoDp, outcome |-> "none", cat0 |-> EmptyCatalog,
           keys |-> <<>>]

NoBody == [descriptorKind |-> "", descriptor |-> NoText, removeData |-> None]
NoHttp == [endpoint |-> "none", body |-> NoBody, unpacked |-> Pending, response |-> Pending]
NoCodec == [id |-> <<>>, dp_name |-> None, component_name |-> None]

GatewayCall(op, dp, port, name, raised) ==
    [op |-> op, dp |-> dp, port |-> port, name |-> name, raised |-> raised]

\* no request was received yet and the catalog is empty
InitServing ==
    /\ catalog = EmptyCatalog
    /\ pc = [p \in Procs |-> "idle"]
    /\ request = [p \in Procs |-> NoRequest]
    /\ idx = [p \in Procs |-> 1]
    /\ calls = [p \in Procs |-> <<>>]
    /\ client = [p \in Procs |-> <<>>]
    /\ listed = [p \in Procs |-> NoListing]
    /\ result = [p \in Procs |-> Pending]
    /\ cat0 = [p \in Procs |-> EmptyCatalog]
    /\ prev = NoPrev
    /\ ncalls = 0
    /\ http = [p \in Procs |-> NoHttp]
    /\ twin = None

Init ==
    /\ InitServing
    /\ codec = NoCodec

(***************************** reconciliation engine ***********************)
\* the call of a method of ProvisionService: the handler starts at first
Invoke(p, kind, dp, remove_data, first) ==
    /\ request' = [request EXCEPT ![p] = [kind |-> kind, dp |-> dp, remove_data |-> remove_data]]
    /\ pc' = [pc EXCEPT ![p] = first]
    /\ idx' = [idx EXCEPT ![p] = 1]
    /\ calls' = [calls EXCEPT ![p] = <<>>]
    /\ client' = [client EXCEPT ![p] = <<>>]
    /\ listed' = [listed EXCEPT ![p] = NoListing]
    /\ result' = [result EXCEPT ![p] = Pending]
    /\ cat0' = [cat0 EXCEPT ![p] = catalog]
    /\ UNCHANGED <<catalog, codec, twin>>

\* entering a handler of ProvisionService with an unpacked request; a recorded call
\* keeps in prev the call served before it: its request, the type of its outcome, the
\* catalog it started from and the keys its client calls addressed
Begin(p, kind, dp, remove_data, first, recorded) ==
    /\ pc[p] \in {"idle", "done"}
    /\ IF recorded
       THEN /\ ncalls < MaxCalls
            /\ ncalls' = ncalls + 1
            /\ prev' = IF pc[p] = "done"
                       THEN [kind |-> request[p].kind, dp |-> request[p].dp,
                             outcome |-> result[p].type, cat0 |-> cat0[p],
                             keys |-> [k \in 1..Len(client[p]) |-> client[p][k].key]]
                       ELSE prev
       ELSE UNCHANGED <<prev, ncalls>>
    /\ Invoke(p, kind, dp, remove_data, first)
    /\ UNCHANGED http

\* a handler that answers every fault with one fixed text
ExceptServiceError_FixedText(error_msg) == SystemErr(<<"Internal server error">>)

\* a handler that reports a fault of the catalog as a fault of the descriptor
ExceptServiceError_AsValidationError(error_msg) == ValidationError(<<error_msg>>)

\* "except ServiceError as se: return SystemErr(error=se.error_msg)"
ExceptServiceError(error_msg) == SystemErr(error_msg)

\* a handler that restores the catalog of the start of the call
CatalogAfterServiceError_Rollback(cat, cat_at_start) == cat_at_start

\* the handlers compensate nothing: the catalog a ServiceError leaves behind stays
CatalogAfterServiceError(cat, cat_at_start) == cat

\* a handler that tries an operation that failed again, for a while
Issue_Retrying(p, call, r, next, value) ==
    /\ calls' = [calls EXCEPT ![p] = Append(@, [call EXCEPT !.raised = r.raised])]
    /\ client' = [client EXCEPT ![p] = @ \o r.client]
    /\ catalog' = r.cat
    /\ IF r.raised = None
       THEN /\ pc' = [pc EXCEPT ![p] = next]
            /\ result' = [result EXCEPT ![p] = value]
       ELSE IF Len(calls[p]) < 2 * (4 + MaxPorts)
       THEN UNCHANGED <<pc, result>>
       ELSE /\ pc' = [pc EXCEPT ![p] = "done"]
            /\ result' = [result EXCEPT ![p] = ExceptServiceError(r.raised[1])]
    /\ UNCHANGED <<request, cat0, prev, ncalls, http, codec, twin>>

\* one gateway operation of a handler: r is what the operation did; when it returned,
\* the handler goes on to next (returning there when value is not Pending)
Issue(p, call, r, next, value) ==
    /\ calls' = [calls EXCEPT ![p] = Append(@, [call EXCEPT !.raised = r.raised])]
    /\ client' = [client EXCEPT ![p] = @ \o r.client]
    /\ IF r.raised = None
       THEN /\ catalog' = r.cat
            /\ pc' = [pc EXCEPT ![p] = next]
            /\ result' = [result EXCEPT ![p] = value]
       ELSE /\ catalog' = CatalogAfterServiceError(r.cat, cat0[p])
            /\ pc' = [pc EXCEPT ![p] = "done"]
            /\ result' = [result EXCEPT ![p] = ExceptServiceError(r.raised[1])]
    /\ UNCHANGED <<request, cat0, prev, ncalls, http, codec, twin>>

BeginProvision(p) ==
    \E dp \in Requested : Begin(p, "provision", dp, FALSE, "storage_service", FALSE)

ProvisionStorageService(p) ==
    /\ pc[p] = "storage_service"
    /\ \E f \in Faults(1) :
          Issue(p, GatewayCall("create_or_update_generic_storage_service", NoDp, NoPort, "", None),
                create_or_update_generic_storage_service(catalog, f),
                "custom_attributes", Pending)
    /\ UNCHANGED <<idx, listed>>

ProvisionCustomAttributes(p) ==
    /\ pc[p] = "custom_attributes"
    /\ \E f \in Faults(4), string_type \in {None, Some(StringType)} :
          Issue(p, GatewayCall("create_or_update_container_custom_attributes", NoDp, NoPort, "", None),
                create_or_update_container_custom_attributes(catalog, string_type, f),
                "domain", Pending)
    /\ UNCHANGED <<idx, listed>>

ProvisionDomain(p) ==
    /\ pc[p] = "domain"
    /\ \E f \in Faults(1) :
          Issue(p, GatewayCall("create_or_update_domain", NoDp, NoPort, request[p].dp.domain, None),
                create_or_update_domain(catalog, request[p].dp.domain, f),
                "dp", Pending)
    /\ UNCHANGED <<idx, listed>>

ProvisionDp(p) ==
    /\ pc[p] = "dp"
    /\ \E f \in Faults(1) :
          Issue(p, GatewayCall("create_or_update_dp", request[p].dp, NoPort, "", None),
                create_or_update_dp(catalog, request[p].dp, f),
                "ports", Pending)
    /\ UNCHANGED <<idx, listed>>

\* a loop that walks the output ports from the last to the first
ProvisionPort_Reversed(p) ==
    /\ pc[p] = "ports"
    /\ idx[p] <= Len(get_output_ports(request[p].dp))
    /\ LET ports == get_output_ports(request[p].dp)
           op == ports[Len(ports) + 1 - idx[p]]
       IN  \E f \in Faults(1) :
              Issue(p, GatewayCall("create_or_update_op", request[p].dp, op, "", None),
                    create_or_update_op(catalog, request[p].dp, op, f),
                    "ports", Pending)
    /\ idx' = [idx EXCEPT ![p] = @ + 1]
    /\ UNCHANGED listed

ProvisionPort(p) ==
    /\ pc[p] = "ports"
    /\ idx[p] <= Len(get_output_ports(request[p].dp))
    /\ LET op == get_output_ports(request[p].dp)[idx[p]]
       IN  \E f \in Faults(1) :
              Issue(p, GatewayCall("create_or_update_op", request[p].dp, op, "", None),
                    create_or_update_op(catalog, request[p].dp, op, f),
                    "ports", Pending)
    /\ idx' = [idx EXCEPT ![p] = @ + 1]
    /\ UNCHANGED listed

ProvisionReturn(p) ==
    /\ pc[p] = "ports"
    /\ idx[p] > Len(get_output_ports(request[p].dp))
    /\ pc' = [pc EXCEPT ![p] = "done"]
    /\ LET public_info == _get_public_info(request[p].dp)
       IN  result' = [result EXCEPT ![p] =
                         IF public_info.raised # None
                         THEN UnhandledException(public_info.raised[1])
                         ELSE ProvisioningStatus(COMPLETED, Some(<<public_info.info[1]>>))]
    /\ UNCHANGED <<catalog, request, idx, calls, client, listed, cat0, prev, ncalls,
                   http, codec, twin>>

BeginUnprovision(p) ==
    \E dp \in Requested, remove_data \in BOOLEAN :
        Begin(p, "unprovision", dp, remove_data, "delete_ports", FALSE)

\* a loop that walks the output ports from the last to the first
UnprovisionPort_Reversed(p) ==
    /\ pc[p] = "delete_ports"
    /\ idx[p] <= Len(get_output_ports(request[p].dp))
    /\ LET ports == get_output_ports(request[p].dp)
           op == ports[Len(ports) + 1 - idx[p]]
       IN  \E f \in Faults(2) :
              Issue(p, GatewayCall("delete_op", NoDp, op, "", None),
                    delete_op(catalog, op, f),
                    "delete_ports", Pending)
    /\ idx' = [idx EXCEPT ![p] = @ + 1]
    /\ UNCHANGED listed

\* a loop that deletes the output ports only when the data is to be removed
UnprovisionPort_WhenRemoving(p) ==
    /\ pc[p] = "delete_ports"
    /\ idx[p] <= Len(get_output_ports(request[p].dp))
    /\ LET op == get_output_ports(request[p].dp)[idx[p]]
       IN  IF request[p].remove_data
           THEN \E f \in Faults(2) :
                   Issue(p, GatewayCall("delete_op", NoDp, op, "", None),
                         delete_op(catalog, op, f),
                         "delete_ports", Pending)
           ELSE UNCHANGED <<catalog, pc, request, calls, client, result, cat0, prev,
                            ncalls, http, codec, twin>>
    /\ idx' = [idx EXCEPT ![p] = @ + 1]
    /\ UNCHANGED listed

UnprovisionPort(p) ==
    /\ pc[p] = "delete_ports"
    /\ idx[p] <= Len(get_output_ports(request[p].dp))
    /\ LET op == get_output_ports(request[p].dp)[idx[p]]
       IN  \E f \in Faults(2) :
              Issue(p, GatewayCall("delete_op", NoDp, op, "", None),
                    delete_op(catalog, op, f),
                    "delete_ports", Pending)
    /\ idx' = [idx EXCEPT ![p] = @ + 1]
    /\ UNCHANGED listed

UnprovisionDp(p) ==
    /\ pc[p] = "delete_ports"
    /\ idx[p] > Len(get_output_ports(request[p].dp))
    /\ \E f \in Faults(2) :
          Issue(p, GatewayCall("delete_dp", request[p].dp, NoPort, "", None),
                delete_dp(catalog, request[p].dp, f),
                "done", ProvisioningStatus(COMPLETED, None))
    /\ UNCHANGED <<idx, listed>>

\* the tag labels of all columns of all output ports, in descriptor order
RECURSIVE ColumnTags(_)
ColumnTags(columns) ==
    IF columns = <<>> THEN <<>>
    ELSE OrElse(Head(columns).tags, <<>>) \o ColumnTags(Tail(columns))

RECURSIVE PortColumns(_)
PortColumns(ports) ==
    IF ports = <<>> THEN <<>>
    ELSE OrElse(Head(ports).schema, <<>>) \o PortColumns(Tail(ports))

TagLabels(dp) == ColumnTags(PortColumns(get_output_ports(dp)))

\* a validate that takes every label for a classification tag
classification_tags_AnySource(dp) == {t.tagFQN : t \in Range(TagLabels(dp))}

classification_tags(dp) ==
    {t.tagFQN : t \in {l \in Range(TagLabels(dp)) : l.source = CLASSIFICATION}}

glossary_terms(dp) ==
    {t.tagFQN : t \in {l \in Range(TagLabels(dp)) : l.source = GLOSSARY}}

\* {t.fullyQualifiedName for t in listing if t.fullyQualifiedName}
Existing(listing) == {t[1] : t \in {x \in listing : x # None}}

missing_tags(dp, listing) == classification_tags(dp) \ Existing(listing)
missing_terms(dp, listing) == glossary_terms(dp) \ Existing(listing)

\* ",".join(ids)
RECURSIVE JoinComma(_)
JoinComma(ids) ==
    IF Len(ids) <= 1 THEN ids
    ELSE <<Head(ids), ",">> \o JoinComma(Tail(ids))

MissingTagsMessage(ids) ==
    <<"Missing classification tags ">> \o JoinComma(ids) \o <<" in OpenMetadata">>
MissingTermsMessage(ids) ==
    <<"Missing glossary terms ">> \o JoinComma(ids) \o <<" in OpenMetadata">>

\* a validate that reports the glossary terms before the classification tags
ValidateOutcome_TermsFirst(dp, tags, terms, tag_order, term_order) ==
    IF missing_tags(dp, tags) # {} \/ missing_terms(dp, terms) # {}
    THEN ValidationError(
            (IF missing_terms(dp, terms) # {} THEN <<MissingTermsMessage(term_order)>> ELSE <<>>)
         \o (IF missing_tags(dp, tags) # {} THEN <<MissingTagsMessage(tag_order)>> ELSE <<>>))
    ELSE NoError

\* a validate that builds its ValidationError whether or not anything is missing
ValidateOutcome_NoGuard(dp, tags, terms, tag_order, term_order) ==
    ValidationError(
            (IF missing_tags(dp, tags) # {} THEN <<MissingTagsMessage(tag_order)>> ELSE <<>>)
         \o (IF missing_terms(dp, terms) # {} THEN <<MissingTermsMessage(term_order)>> ELSE <<>>))

\* a validate that accepts a label when the catalog lists its name under either kind
ValidateOutcome_AnyKind(dp, tags, terms, tag_order, term_order) ==
    LET no_tags == classification_tags(dp) \ Existing(tags \cup terms)
        no_terms == glossary_terms(dp) \ Existing(tags \cup terms)
    IN  IF no_tags # {} \/ no_terms # {}
        THEN ValidationError(
                (IF no_tags # {} THEN <<MissingTagsMessage(tag_order)>> ELSE <<>>)
             \o (IF no_terms # {} THEN <<MissingTermsMessage(term_order)>> ELSE <<>>))
        ELSE NoError

\* what validate returns once both listings were read; tag_order and term_order are
\* the orders in which the two sets of missing identifiers are iterated
ValidateOutcome(dp, tags, terms, tag_order, term_order) ==
    IF missing_tags(dp, tags) # {} \/ missing_terms(dp, terms) # {}
    THEN ValidationError(
            (IF missing_tags(dp, tags) # {} THEN <<MissingTagsMessage(tag_order)>> ELSE <<>>)
         \o (IF missing_terms(dp, terms) # {} THEN <<MissingTermsMessage(term_order)>> ELSE <<>>))
    ELSE NoError

\* a validate that returns at once when no column of the descriptor carries a label
BeginValidate_SkippingUnlabelled(p) ==
    \E dp \in Requested :
        Begin(p, "validate", dp, FALSE,
              IF TagLabels(dp) = <<>> THEN "done" ELSE "read_tags", FALSE)

BeginValidate(p) ==
    \E dp \in Requested : Begin(p, "validate", dp, FALSE, "read_tags", FALSE)

ValidateTags(p) ==
    /\ pc[p] = "read_tags"
    /\ \E f \in Faults(1), listing \in SUBSET CatalogTags :
          LET r == get_all_classification_tags(catalog, listing, f)
          IN  /\ Issue(p, GatewayCall("get_all_classification_tags", NoDp, NoPort, "", None),
                       r, "read_terms", Pending)
              /\ listed' = IF r.raised = None
                           THEN [listed EXCEPT ![p].tags = r.value]
                           ELSE listed
    /\ UNCHANGED idx

ValidateTerms(p) ==
    /\ pc[p] = "read_terms"
    /\ \E f \in Faults(1), listing \in SUBSET CatalogTerms :
          LET r == get_all_glossary_terms(catalog, listing, f)
              dp == request[p].dp
          IN  /\ r.raised = None =>
                    listed' = [listed EXCEPT ![p].terms = r.value]
              /\ r.raised # None => listed' = listed
              /\ \E tag_order \in Perms(missing_tags(dp, listed[p].tags)),
                    term_order \in Perms(IF r.raised = None
                                         THEN missing_terms(dp, r.value) ELSE {}) :
                    Issue(p, GatewayCall("get_all_glossary_terms", NoDp, NoPort, "", None),
                          r, "done",
                          IF r.raised = None
                          THEN ValidateOutcome(dp, listed[p].tags, r.value, tag_order, term_order)
                          ELSE Pending)
    /\ UNCHANGED idx

(***************************** specification *******************************)
Provision(p) ==
    \/ ProvisionStorageService(p)
    \/ ProvisionCustomAttributes(p)
    \/ ProvisionDomain(p)
    \/ ProvisionDp(p)
    \/ ProvisionPort(p)
    \/ ProvisionReturn(p)

Unprovision(p) ==
    \/ UnprovisionPort(p)
    \/ UnprovisionDp(p)

Validate(p) ==
    \/ ValidateTags(p)
    \/ ValidateTerms(p)

\* requests are served one after the other, without end
Next ==
    \E p \in SeqProcs :
        \/ BeginProvision(p)
        \/ BeginUnprovision(p)
        \/ BeginValidate(p)
        \/ Provision(p)
        \/ Unprovision(p)
        \/ Validate(p)

Spec == Init /\ [][Next]_vars

\* every catalog call returns, with a value or with a fault: a handler that is at a
\* gateway operation goes on
Running(p) == pc[p] \notin {"idle", "done"}
SpecFair ==
    Spec /\ WF_vars(\E p \in SeqProcs : Provision(p) \/ Unprovision(p) \/ Validate(p))

\* up to MaxCalls provision and unprovision requests, one after the other, each
\* keeping in prev the request served before it
RecordedProvision(p) ==
    \E dp \in Descriptors : Begin(p, "provision", dp, FALSE, "storage_service", TRUE)

\* unprovision never reads remove_data: the recorded requests all carry the default
RecordedUnprovision(p) ==
    \E dp \in Descriptors :
        Begin(p, "unprovision", dp, FALSE, "delete_ports", TRUE)

NextRecorded ==
    \E p \in SeqProcs :
        \/ RecordedProvision(p)
        \/ RecordedUnprovision(p)
        \/ Provision(p)
        \/ Unprovision(p)

SpecRecorded == Init /\ [][NextRecorded]_vars

\* provisions and unprovisions of several data products, one after the other
ProvisionProduct(p) ==
    \E dp \in ProductDescriptors : Begin(p, "provision", dp, FALSE, "storage_service", FALSE)

UnprovisionProduct(p) ==
    \E dp \in ProductDescriptors : Begin(p, "unprovision", dp, FALSE, "delete_ports", FALSE)

NextProducts ==
    \E p \in SeqProcs :
        \/ ProvisionProduct(p)
        \/ UnprovisionProduct(p)
        \/ Provision(p)
        \/ Unprovision(p)

SpecProducts == Init /\ [][NextProducts]_vars

\* validate, called with descriptors whose labels name entities of the other kind
BeginValidateCrossed(p) ==
    \E dp \in CrossedDescriptors : Begin(p, "validate", dp, FALSE, "read_tags", FALSE)

NextCrossed ==
    \E p \in SeqProcs :
        \/ BeginValidateCrossed(p)
        \/ Validate(p)

SpecCrossed == Init /\ [][NextCrossed]_vars

(***************************** callers of the gateway **********************)
\* the data products and output ports a caller hands to the gateway
GatewayDps == {DataProduct(<<>>), [DataProduct(<<>>) EXCEPT !.id = ShortDpUrn]}
GatewayPorts == {PortA, PortB, PortShort}
\* what get_by_name answers for a tag or a glossary term of that name
Found(fqn) == {None, Some([fqn |-> <<fqn>>])}

\* one call of a gateway operation on its own: r is what the operation did
Called(p, call, r) ==
    /\ pc[p] \in {"idle", "done"}
    /\ pc' = [pc EXCEPT ![p] = "done"]
    /\ calls' = [calls EXCEPT ![p] = <<[call EXCEPT !.raised = r.raised]>>]
    /\ client' = [client EXCEPT ![p] = r.client]
    /\ catalog' = r.cat
    /\ UNCHANGED <<request, idx, listed, result, cat0, prev, ncalls, http, codec, twin>>

\* the five create-or-update operations
CallCreateOrUpdate(p) ==
    \/ \E f \in Faults(1) :
          Called(p, GatewayCall("create_or_update_generic_storage_service", NoDp, NoPort, "", None),
                 create_or_update_generic_storage_service(catalog, f))
    \/ \E f \in Faults(4), string_type \in {None, Some(StringType)} :
          Called(p, GatewayCall("create_or_update_container_custom_attributes", NoDp, NoPort, "", None),
                 create_or_update_container_custom_attributes(catalog, string_type, f))
    \/ \E f \in Faults(1), name \in {"healthcare"} :
          Called(p, GatewayCall("create_or_update_domain", NoDp, NoPort, name, None),
                 create_or_update_domain(catalog, name, f))
    \/ \E f \in Faults(1), dp \in GatewayDps :
          Called(p, GatewayCall("create_or_update_dp", dp, NoPort, "", None),
                 create_or_update_dp(catalog, dp, f))
    \/ \E f \in Faults(1), dp \in GatewayDps, op \in GatewayPorts :
          Called(p, GatewayCall("create_or_update_op", dp, op, "", None),
                 create_or_update_op(catalog, dp, op, f))

\* the two deletes
CallDelete(p) ==
    \/ \E f \in Faults(2), dp \in GatewayDps :
          Called(p, GatewayCall("delete_dp", dp, NoPort, "", None), delete_dp(catalog, dp, f))
    \/ \E f \in Faults(2), op \in GatewayPorts :
          Called(p, GatewayCall("delete_op", NoDp, op, "", None), delete_op(catalog, op, f))

\* the two listings
CallGetAll(p) ==
    \/ \E f \in Faults(1), listing \in SUBSET CatalogTags :
          Called(p, GatewayCall("get_all_classification_tags", NoDp, NoPort, "", None),
                 get_all_classification_tags(catalog, listing, f))
    \/ \E f \in Faults(1), listing \in SUBSET CatalogTerms :
          Called(p, GatewayCall("get_all_glossary_terms", NoDp, NoPort, "", None),
                 get_all_glossary_terms(catalog, listing, f))

\* the two lookups by name
CallGet(p) ==
    \/ \E f \in Faults(1), fqn \in {"tag1", "tag2"} : \E existing \in Found(fqn) :
          Called(p, GatewayCall("get_classification_tag", NoDp, NoPort, fqn, None),
                 get_classification_tag(catalog, fqn, existing, f))
    \/ \E f \in Faults(1), fqn \in {"term1", "term2"} : \E existing \in Found(fqn) :
          Called(p, GatewayCall("get_glossary_term", NoDp, NoPort, fqn, None),
                 get_glossary_term(catalog, fqn, existing, f))

\* the operations of the gateway are called in any order, one after the other
NextGateway ==
    \E p \in SeqProcs :
        \/ CallCreateOrUpdate(p)
        \/ CallDelete(p)
        \/ CallGetAll(p)
        \/ CallGet(p)

SpecGateway == Init /\ [][NextGateway]_vars

(***************************** endpoints ***********************************)
\* an endpoint answers out_response without calling the provision service
Respond(p, out_response) ==
    /\ pc' = [pc EXCEPT ![p] = "done"]
    /\ result' = [result EXCEPT ![p] = out_response]
    /\ request' = [request EXCEPT ![p] = NoRequest]
    /\ idx' = [idx EXCEPT ![p] = 1]
    /\ calls' = [calls EXCEPT ![p] = <<>>]
    /\ client' = [client EXCEPT ![p] = <<>>]
    /\ listed' = [listed EXCEPT ![p] = NoListing]
    /\ cat0' = [cat0 EXCEPT ![p] = catalog]
    /\ UNCHANGED <<catalog, codec, twin>>

\* an endpoint received body, which was unpacked, once the request before it was
\* answered; up to MaxCalls requests arrive
Received(p, endpoint, body, unpacked) ==
    /\ pc[p] \in {"idle", "done"}
    /\ http[p].endpoint = "none" \/ http[p].response # Pending
    /\ ncalls < MaxCalls
    /\ ncalls' = ncalls + 1
    /\ http' = [http EXCEPT ![p] = [endpoint |-> endpoint, body |-> body,
                                    unpacked |-> unpacked, response |-> Pending]]
    /\ UNCHANGED prev

\* the response of an endpoint: ValidationError is a bad request, SystemErr and what
\* nobody handled are server errors, the results are answered with 200
JSONResponse(status_code, content) == [status_code |-> status_code, content |-> content]
check_response(out_response) ==
    CASE out_response.type \in {"ProvisioningStatus", "ValidationResult"} ->
            JSONResponse(200, out_response)
      [] out_response.type = "str" -> JSONResponse(202, out_response)
      [] out_response.type \in {"ValidationError", "CustomUrlPickerValidationError"} ->
            JSONResponse(400, out_response)
      [] OTHER -> JSONResponse(500, out_response)

\* a validate endpoint that answers a ValidationError of the service as it is
validate_response_Unwrapped(validate_res) ==
    IF validate_res.type = "None"
    THEN check_response(ValidationResult(TRUE, None))
    ELSE check_response(validate_res)

\* the end of POST /v1/validate, from what the provision service returned (a
\* ValidationResult is the answer to a request that was not unpacked)
validate_response(validate_res) ==
    IF validate_res.type = "None"
    THEN check_response(ValidationResult(TRUE, None))
    ELSE IF validate_res.type = "ValidationError"
    THEN check_response(ValidationResult(FALSE, Some(validate_res)))
    ELSE check_response(validate_res)

\* the endpoint answers with what the service, or the endpoint itself, returned
Return(p) ==
    /\ pc[p] = "done"
    /\ http[p].endpoint \in {"provision", "unprovision", "validate", "updateacl"}
    /\ http[p].response = Pending
    /\ http' = [http EXCEPT ![p].response =
                    IF http[p].endpoint = "validate"
                    THEN validate_response(result[p])
                    ELSE check_response(result[p])]
    /\ UNCHANGED <<catalog, pc, request, idx, calls, client, listed, result, cat0, prev,
                   ncalls, codec, twin>>

\* an endpoint that hands whatever the unpacking returned to the provision service
provision_Unchecked(p) ==
    \E body \in ProvisioningRequests :
        LET unpacked == unpack_provisioning_request(body)
        IN  /\ Received(p, "provision", body, unpacked)
            /\ Invoke(p, "provision",
                      IF unpacked.type = "DataProduct" THEN unpacked.dp ELSE NoDp,
                      FALSE, "storage_service")

\* POST /v1/provision: the request is unpacked before the endpoint runs; an exception
\* of the unpacking would reach the transport layer
provision(p) ==
    \E body \in ProvisioningRequests :
        LET unpacked == unpack_provisioning_request(body)
        IN  /\ Received(p, "provision", body, unpacked)
            /\ IF unpacked.type = "DataProduct"
               THEN Invoke(p, "provision", unpacked.dp, FALSE, "storage_service")
               ELSE Respond(p, unpacked)

\* POST /v1/unprovision
unprovision(p) ==
    \E body \in ProvisioningRequests :
        LET unpacked == unpack_unprovisioning_request(body)
        IN  /\ Received(p, "unprovision", body, unpacked)
            /\ IF unpacked.type = "Tuple"
               THEN Invoke(p, "unprovision", unpacked.dp, unpacked.remove_data, "delete_ports")
               ELSE Respond(p, unpacked)

\* POST /v1/validate, up to the call of the provision service
validate(p) ==
    \E body \in ProvisioningRequests :
        LET unpacked == unpack_provisioning_request(body)
        IN  /\ Received(p, "validate", body, unpacked)
            /\ IF unpacked.type = "DataProduct"
               THEN Invoke(p, "validate", unpacked.dp, FALSE, "read_tags")
               ELSE IF unpacked.type = "ValidationError"
               THEN Respond(p, ValidationResult(FALSE, Some(unpacked)))
               ELSE Respond(p, unpacked)

\* requests arrive at the endpoints, one after the other
NextApi ==
    \E p \in SeqProcs :
        \/ provision(p)
        \/ unprovision(p)
        \/ validate(p)
        \/ Provision(p)
        \/ Unprovision(p)
        \/ Validate(p)
        \/ Return(p)

SpecApi == Init /\ [][NextApi]_vars

NotYetImplemented == "Response not yet implemented"

\* POST /v1/updateacl: the endpoint answers before it calls any service
updateacl(p) ==
    \E body \in UpdateAclRequests :
        LET unpacked == unpack_update_acl_request(body)
        IN  /\ Received(p, "updateacl", body, unpacked)
            /\ IF unpacked.type = "ValidationError"
               THEN Respond(p, unpacked)
               ELSE Respond(p, SystemErr(NotYetImplemented))

NextAcl ==
    \E p \in SeqProcs :
        \/ updateacl(p)
        \/ Return(p)

SpecAcl == Init /\ [][NextAcl]_vars

(***************************** claims **************************************)
Last(s) == s[Len(s)]
Serving(p, kind) == request[p].kind = kind
HasReturned(p, kind) == request[p].kind = kind /\ pc[p] = "done"

\* the gateway operations of a provision of dp, in the order of the specification
ProvisionOrder(dp) ==
    <<GatewayCall("create_or_update_generic_storage_service", NoDp, NoPort, "", None),
      GatewayCall("create_or_update_container_custom_attributes", NoDp, NoPort, "", None),
      GatewayCall("create_or_update_domain", NoDp, NoPort, dp.domain, None),
      GatewayCall("create_or_update_dp", dp, NoPort, "", None)>>
    \o [k \in 1..Len(dp.components) |->
            GatewayCall("create_or_update_op", dp, dp.components[k], "", None)]

SameOperation(c, e) == c.op = e.op /\ c.name = e.name /\ c.dp = e.dp /\ c.port = e.port

\* log is a prefix of order in which every operation but the last returned
InOrder(log, order) ==
    /\ Len(log) <= Len(order)
    /\ \A k \in 1..Len(log) :
          /\ SameOperation(log[k], order[k])
          /\ k < Len(log) => log[k].raised = None

\* C1: at every moment of a provision call the gateway operations issued so far are
\* the first ones of storage service, custom attributes, domain, data product, one
\* output port per component in descriptor order; each was issued after the one before
\* it returned; and a call that returns a ProvisioningStatus has issued them all.
C1_ProvisionOrder ==
    \A p \in Procs :
        Serving(p, "provision") =>
            /\ InOrder(calls[p], ProvisionOrder(request[p].dp))
            /\ result[p].type = "ProvisioningStatus" =>
                  /\ Len(calls[p]) = Len(ProvisionOrder(request[p].dp))
                  /\ Last(calls[p]).raised = None

C1_Witness ==
    \E p \in Procs :
        /\ HasReturned(p, "provision")
        /\ result[p].type = "ProvisioningStatus"
        /\ Len(request[p].dp.components) = 2
        /\ Len(calls[p]) = 6

\* C2: as soon as a gateway operation of a provision call has raised a service fault
\* the call has returned SystemErr carrying exactly the message of that fault, and the
\* faulting operation is the last one the call issued; a provision call returns
\* SystemErr in no other case.
C2_ProvisionFault ==
    \A p \in Procs :
        Serving(p, "provision") =>
            /\ \A k \in 1..Len(calls[p]) :
                  calls[p][k].raised # None =>
                      /\ k = Len(calls[p])
                      /\ pc[p] = "done"
                      /\ result[p] = SystemErr(calls[p][k].raised[1])
            /\ result[p].type = "SystemErr" =>
                  calls[p] # <<>> /\ Last(calls[p]).raised # None

C2_Witness ==
    \E p \in Procs :
        /\ HasReturned(p, "provision")
        /\ Len(calls[p]) = 2
        /\ Last(calls[p]).raised # None
        /\ result[p] = SystemErr(Last(calls[p]).raised[1])
        /\ Len(request[p].dp.components) >= 1

\* the writes of a call that the client accepted, and the last accepted write of a key
AcceptedWrite(c) == c.sent # None /\ c.raised = None
LastWriteOf(log, k) ==
    \A j \in (k + 1)..Len(log) :
        ~(AcceptedWrite(log[j]) /\ log[j].etype = log[k].etype /\ log[j].key = log[k].key)

\* C3: when a provision call returns SystemErr, every entity a write of that call put
\* into the catalog is there, as the call's last write of it left it.
C3_NoRollback ==
    \A p \in Procs :
        (HasReturned(p, "provision") /\ result[p].type = "SystemErr") =>
            \A k \in 1..Len(client[p]) :
                (AcceptedWrite(client[p][k]) /\ LastWriteOf(client[p], k)) =>
                    client[p][k].sent[1] \in catalog[client[p][k].etype]

\* a fault at the second output port, after five operations that wrote
C3_Witness ==
    \E p \in Procs :
        /\ HasReturned(p, "provision")
        /\ result[p].type = "SystemErr"
        /\ Len(calls[p]) = 6
        /\ cat0[p] = EmptyCatalog
        /\ catalog["dataProduct"] # {}
        /\ catalog["container"] # {}

\* the names the specification derives from a urn: segments 4 to 6, and 4 to 7
SpecDpName(id) == <<id[4], id[5], id[6]>>
SpecComponentName(id) == <<id[4], id[5], id[6], id[7]>>
WellFormed(dp) ==
    /\ Len(dp.id) >= 6
    /\ \A k \in 1..Len(dp.components) : Len(dp.components[k].id) >= 7

Keys(log) == [k \in 1..Len(log) |-> log[k].key]

\* the catalog's environment raised nothing and answered the type lookup
EnvironmentQuiet(log) ==
    \A k \in 1..Len(log) :
        /\ log[k].raised # None => log[k].raised[1] \notin Details
        /\ (log[k].call = "get" /\ log[k].raised = None) => log[k].returned # None

\* the call before this one was the same request with that outcome
Repeats(p, kind, outcome) ==
    /\ HasReturned(p, kind)
    /\ prev.kind = kind
    /\ prev.dp = request[p].dp
    /\ prev.outcome = outcome

\* C4: when a provision that returned COMPLETED is followed by a provision of the
\* identical descriptor that returns COMPLETED, the second call addressed the same
\* names as the first, left the catalog as the first call had left it, and the catalog
\* holds exactly one data product under the derived name and, for every component,
\* exactly one container under the component's derived name.
C4_ProvisionIdempotent ==
    \A p \in Procs :
        (Repeats(p, "provision", "ProvisioningStatus") /\ result[p].type = "ProvisioningStatus") =>
            LET dp == request[p].dp
            IN  /\ Keys(client[p]) = prev.keys
                /\ catalog = cat0[p]
                /\ Cardinality({e \in catalog["dataProduct"] : e.name = SpecDpName(dp.id)}) = 1
                /\ \A k \in 1..Len(dp.components) :
                      Cardinality({e \in catalog["container"] :
                          e.fqn = <<default_storage_service_name, ".">>
                                  \o SpecComponentName(dp.components[k].id)}) = 1

C4_Witness ==
    \E p \in Procs :
        /\ Repeats(p, "provision", "ProvisioningStatus")
        /\ result[p].type = "ProvisioningStatus"
        /\ Len(request[p].dp.components) = 2
        /\ Cardinality(catalog["container"]) = 2

\* a provision of dp from cat in which no operation raises
RECURSIVE ProvisionPorts(_, _, _)
ProvisionPorts(cat, dp, n) ==
    IF n = 0 THEN cat
    ELSE create_or_update_op(ProvisionPorts(cat, dp, n - 1), dp,
                             get_output_ports(dp)[n], NoFault).cat

FaultFreeProvision(cat, dp) ==
    LET c1 == create_or_update_generic_storage_service(cat, NoFault).cat
        c2 == create_or_update_container_custom_attributes(c1, Some(StringType), NoFault).cat
        c3 == create_or_update_domain(c2, dp.domain, NoFault).cat
        c4 == create_or_update_dp(c3, dp, NoFault).cat
    IN  ProvisionPorts(c4, dp, Len(get_output_ports(dp)))

\* C5: when a provision that returned SystemErr is followed by a provision of the
\* identical descriptor, the retry returns COMPLETED unless it meets a fault of its own
\* (for a well-formed descriptor: unless the catalog's environment raises or lacks the
\* string type), and a retry that returns COMPLETED leaves the catalog that one
\* fault-free provision from the first call's starting catalog leaves.
C5_RetryAfterFault ==
    \A p \in Procs :
        Repeats(p, "provision", "SystemErr") =>
            /\ (EnvironmentQuiet(client[p]) /\ WellFormed(request[p].dp)) =>
                  /\ result[p].type = "ProvisioningStatus"
                  /\ result[p].status = COMPLETED
            /\ result[p].type = "ProvisioningStatus" =>
                  catalog = FaultFreeProvision(prev.cat0, request[p].dp)

\* the first call wrote the data product and one container before it faulted
C5_Witness ==
    \E p \in Procs :
        /\ Repeats(p, "provision", "SystemErr")
        /\ Len(prev.keys) = 9
        /\ result[p].type = "ProvisioningStatus"
        /\ Len(request[p].dp.components) = 2
        /\ catalog = FaultFreeProvision(prev.cat0, request[p].dp)

\* the gateway operations of an unprovision of dp, in the order of the specification
UnprovisionOrder(dp) ==
    [k \in 1..Len(dp.components) |-> GatewayCall("delete_op", NoDp, dp.components[k], "", None)]
    \o <<GatewayCall("delete_dp", dp, NoPort, "", None)>>

\* C6: the gateway operations of an unprovision call are, in this order, one delete of
\* an output port per component in descriptor order and then the delete of the data
\* product, each issued after the one before it returned; a delete that raises a
\* service fault is the last operation issued and the call returns SystemErr with that
\* fault's message; a call returns once a delete has raised or all of them have
\* returned, and in the second case it returns ProvisioningStatus COMPLETED.
C6_UnprovisionOrder ==
    \A p \in Procs :
        Serving(p, "unprovision") =>
            LET order == UnprovisionOrder(request[p].dp)
            IN  /\ InOrder(calls[p], order)
                /\ \A k \in 1..Len(calls[p]) :
                      calls[p][k].raised # None =>
                          /\ pc[p] = "done"
                          /\ result[p] = SystemErr(calls[p][k].raised[1])
                /\ pc[p] = "done" <=>
                      (calls[p] # <<>> /\ (Last(calls[p]).raised # None
                                           \/ Len(calls[p]) = Len(order)))
                /\ (Len(calls[p]) = Len(order) /\ Last(calls[p]).raised = None) =>
                      /\ result[p].type = "ProvisioningStatus"
                      /\ result[p].status = COMPLETED

C6_Witness ==
    \E p \in Procs :
        /\ HasReturned(p, "unprovision")
        /\ Len(request[p].dp.components) = 2
        /\ Len(calls[p]) = 3
        /\ result[p].type = "ProvisioningStatus"
        /\ cat0[p]["container"] # {}
        /\ catalog["container"] = {}

\* the lookup at position k of a client log answered with an entity
LookupFound(log, k) ==
    log[k].call = "get_by_name" /\ log[k].raised = None /\ log[k].returned # None

\* C7: in an unprovision call every catalog delete comes right after a lookup by name
\* of the same entity that answered with an entity, and every such lookup is followed
\* by the delete of that entity; the names looked up are the derived ones; and a call
\* whose lookup of the data product answered that there is none has issued no delete
\* of a data product and has returned ProvisioningStatus COMPLETED.
C7_DeleteOnlyIfFound ==
    \A p \in Procs :
        Serving(p, "unprovision") =>
            LET log == client[p]
                dp == request[p].dp
            IN  /\ \A k \in 1..Len(log) :
                      /\ log[k].call = "delete" =>
                            /\ k > 1
                            /\ LookupFound(log, k - 1)
                            /\ log[k - 1].etype = log[k].etype
                            /\ log[k - 1].returned[1].fqn = log[k].key
                      /\ LookupFound(log, k) =>
                            /\ k < Len(log)
                            /\ log[k + 1].call = "delete"
                            /\ log[k + 1].etype = log[k].etype
                      /\ (log[k].call = "get_by_name" /\ log[k].etype = "dataProduct") =>
                            (Len(dp.id) >= 6 /\ log[k].key = SpecDpName(dp.id))
                      /\ (log[k].call = "get_by_name" /\ log[k].etype = "container") =>
                            \E j \in 1..Len(dp.components) :
                                /\ Len(dp.components[j].id) >= 7
                                /\ log[k].key = <<default_storage_service_name, ".">>
                                                \o SpecComponentName(dp.components[j].id)
                /\ \A k \in 1..Len(log) :
                      (log[k].call = "get_by_name" /\ log[k].etype = "dataProduct"
                         /\ log[k].raised = None /\ log[k].returned = None) =>
                          /\ k = Len(log)
                          /\ \A j \in 1..Len(log) :
                                ~(log[j].call = "delete" /\ log[j].etype = "dataProduct")
                          /\ pc[p] = "done"
                          /\ result[p].type = "ProvisioningStatus"
                          /\ result[p].status = COMPLETED

\* the data product is absent, a container of it is present
C7_Witness ==
    \E p \in Procs :
        /\ HasReturned(p, "unprovision")
        /\ cat0[p]["dataProduct"] = {}
        /\ cat0[p]["container"] # {}
        /\ result[p].type = "ProvisioningStatus"
        /\ \E k \in 1..Len(client[p]) : client[p][k].call = "delete"
        /\ Last(client[p]).call = "get_by_name"
        /\ Last(client[p]).returned = None

\* the identifiers a descriptor's columns reference with a given source
Referenced(dp, source) ==
    {l.tagFQN : l \in {t \in UNION {UNION {Range(OrElse(c.tags, <<>>)) :
                                          c \in Range(OrElse(o.schema, <<>>))} :
                                   o \in Range(dp.components)} : t.source = source}}

\* the names under which the catalog listed entities
ListedNames(listing) == {x[1] : x \in {y \in listing : Len(y) = 1}}

\* validate has read both listings
ValidateRead(p) ==
    /\ HasReturned(p, "validate")
    /\ Len(calls[p]) = 2
    /\ Last(calls[p]).raised = None

\* the identifiers a message lists between its first and its last part
Listed(message) == [k \in 1..(Len(message) - 2) |-> message[k + 1]]
EachOnce(ids, S) ==
    LET names == {k \in 1..Len(ids) : ids[k] # ","}
    IN  /\ {ids[k] : k \in names} = S
        /\ Cardinality(names) = Cardinality(S)
        /\ Len(ids) = 2 * Cardinality(S) - 1

\* C8: when validate has read both listings and a referenced classification tag or
\* glossary term is not listed, it returns a ValidationError with one message per
\* category that misses something, the classification message first, and each message
\* lists the missing identifiers of its category, each of them once, and no other.
C8_ValidateMissing ==
    \A p \in Procs :
        ValidateRead(p) =>
            LET no_tags == Referenced(request[p].dp, CLASSIFICATION) \ ListedNames(listed[p].tags)
                no_terms == Referenced(request[p].dp, GLOSSARY) \ ListedNames(listed[p].terms)
                errors == result[p].errors
                n_tags == IF no_tags = {} THEN 0 ELSE 1
                n_terms == IF no_terms = {} THEN 0 ELSE 1
            IN  (no_tags # {} \/ no_terms # {}) =>
                    /\ result[p].type = "ValidationError"
                    /\ Len(errors) = n_tags + n_terms
                    /\ no_tags # {} =>
                          /\ errors[1][1] = "Missing classification tags "
                          /\ EachOnce(Listed(errors[1]), no_tags)
                    /\ no_terms # {} =>
                          /\ errors[n_tags + 1][1] = "Missing glossary terms "
                          /\ EachOnce(Listed(errors[n_tags + 1]), no_terms)

\* two classification tags and a glossary term are missing
C8_Witness ==
    \E p \in Procs :
        /\ ValidateRead(p)
        /\ result[p].type = "ValidationError"
        /\ Len(result[p].errors) = 2
        /\ Len(result[p].errors[1]) = 5
        /\ Len(result[p].errors[2]) = 3

\* C9: when validate has read both listings, every referenced classification tag is
\* listed among the tags and every referenced glossary term among the terms, validate
\* returns the bare no-error signal.
C9_ValidateAllPresent ==
    \A p \in Procs :
        (/\ ValidateRead(p)
         /\ Referenced(request[p].dp, CLASSIFICATION) \subseteq ListedNames(listed[p].tags)
         /\ Referenced(request[p].dp, GLOSSARY) \subseteq ListedNames(listed[p].terms)) =>
            result[p] = NoError

C9_Witness ==
    \E p \in Procs :
        /\ ValidateRead(p)
        /\ Referenced(request[p].dp, CLASSIFICATION) = {"tag1", "tag2"}
        /\ Referenced(request[p].dp, GLOSSARY) = {"term1"}
        /\ result[p] = NoError

\* no column of the descriptor carries a tag label
NoTagLabels(dp) ==
    \A k \in 1..Len(dp.components) :
        LET schema == dp.components[k].schema
        IN  schema # None =>
                \A j \in 1..Len(schema[1]) :
                    schema[1][j].tags = None \/ schema[1][j].tags = Some(<<>>)

\* C10: when validate has read both listings for a descriptor in which every schema is
\* empty or has only columns without tags, it returns the bare no-error signal,
\* whatever the catalog lists.
C10_ValidateNoTags ==
    \A p \in Procs :
        (ValidateRead(p) /\ NoTagLabels(request[p].dp)) => result[p] = NoError

\* an empty schema and a schema of columns without tags, nothing listed
C10_Witness ==
    \E p \in Procs :
        /\ ValidateRead(p)
        /\ Len(request[p].dp.components) = 2
        /\ NoTagLabels(request[p].dp)
        /\ listed[p] = NoListing
        /\ result[p] = NoError

\* the message of the ServiceError that a failed listing raises
ReadFaultMessage(etype, detail) ==
    IF etype = "tag"
    THEN <<"Failed to retrieve classification tags", ". Details: ", detail>>
    ELSE <<"Failed to retrieve glossary terms", ". Details: ", detail>>

\* C11: as soon as a read of the catalog has raised during a validate call, the call
\* has returned SystemErr whose error is the message of that fault (the text of the
\* failed listing followed by the client's text); it has not returned a
\* ValidationError, whatever the descriptor references and whatever was listed before.
C11_ValidateReadFault ==
    \A p \in Procs :
        Serving(p, "validate") =>
            \A k \in 1..Len(client[p]) :
                client[p][k].raised # None =>
                    /\ pc[p] = "done"
                    /\ result[p].type = "SystemErr"
                    /\ result[p].type # "ValidationError"
                    /\ result[p].error =
                          ReadFaultMessage(client[p][k].etype, client[p][k].raised[1])

\* the tags were listed and referenced tags are missing; the read of the terms raised
C11_Witness ==
    \E p \in Procs :
        /\ HasReturned(p, "validate")
        /\ Len(client[p]) = 2
        /\ client[p][2].raised # None
        /\ Referenced(request[p].dp, CLASSIFICATION) \ ListedNames(listed[p].tags) # {}
        /\ result[p].type = "SystemErr"

\* C12: at every moment of a validate call the catalog is the catalog the call
\* started from, and the client calls the call has issued are at most two listings,
\* the classification tags and then the glossary terms: no create-or-update, no
\* delete, no other call.
C12_ValidateReadsOnly ==
    \A p \in Procs :
        Serving(p, "validate") =>
            /\ catalog = cat0[p]
            /\ Len(client[p]) <= 2
            /\ \A k \in 1..Len(client[p]) :
                  /\ client[p][k].call = "list_all_entities"
                  /\ client[p][k].sent = None
                  /\ client[p][k].etype = IF k = 1 THEN "tag" ELSE "glossaryTerm"
            /\ \A k \in 1..Len(calls[p]) :
                  calls[p][k].op = IF k = 1 THEN "get_all_classification_tags"
                                   ELSE "get_all_glossary_terms"

\* both listings were read over a catalog that holds entities
C12_Witness ==
    \E p \in Procs :
        /\ ValidateRead(p)
        /\ Len(client[p]) = 2
        /\ cat0[p]["container"] # {}
        /\ catalog = cat0[p]

\* an endpoint has received a request
Arrived(p) == http[p].endpoint # "none"
AcceptedKind(p) ==
    http[p].body.descriptorKind
        \in {"DATAPRODUCT_DESCRIPTOR", "DATAPRODUCT_DESCRIPTOR_WITH_RESULTS"}

\* C13: when the descriptor kind of a received request is neither
\* DATAPRODUCT_DESCRIPTOR nor DATAPRODUCT_DESCRIPTOR_WITH_RESULTS, its unpacking is a
\* ValidationError with the single message "Expecting a DATAPRODUCT_DESCRIPTOR but got
\* a <kind> instead; ..." naming that kind, whatever the descriptor text is: sound,
\* schema-invalid or not YAML at all.
C13_UnexpectedKind ==
    \A p \in Procs :
        (Arrived(p) /\ ~AcceptedKind(p)) =>
            /\ http[p].unpacked.type = "ValidationError"
            /\ Len(http[p].unpacked.errors) = 1
            /\ http[p].unpacked.errors[1] =
                  <<"Expecting a DATAPRODUCT_DESCRIPTOR but got a ",
                    http[p].body.descriptorKind,
                    " instead; please check with the platform team.">>

\* an unexpected kind with a text that is not YAML
C13_Witness ==
    \E p \in Procs :
        /\ http[p].endpoint = "provision"
        /\ http[p].body.descriptorKind = "COMPONENT_DESCRIPTOR"
        /\ http[p].body.descriptor.syntax = "malformed"
        /\ http[p].unpacked.type = "ValidationError"
        /\ http[p].unpacked.errors[1][2] = "COMPONENT_DESCRIPTOR"
        /\ pc[p] = "done"

\* the text is not the YAML of a mapping with every field the model requires
Unparsable(text) ==
    \/ text.syntax # "sound"
    \/ text.document.kind # "mapping"
    \/ \E k \in {"id", "name", "description", "domain", "components"} :
          k \notin text.document.keys

C15_OnlyParsedReachesEngine ==
    \A p \in Procs :
        /\ (Arrived(p) /\ http[p].unpacked.type = "ValidationError") =>
              /\ pc[p] = "done"
              /\ request[p].kind = "none"
              /\ calls[p] = <<>>
              /\ client[p] = <<>>
              /\ catalog = cat0[p]
              /\ result[p] = IF http[p].endpoint = "validate"
                             THEN [type |-> "ValidationResult", valid |-> FALSE,
                                   error |-> <<http[p].unpacked>>]
                             ELSE http[p].unpacked
        /\ (Arrived(p) /\ request[p].kind # "none") =>
              /\ http[p].unpacked.type \in {"DataProduct", "Tuple"}
              /\ request[p].dp = http[p].unpacked.dp
              /\ request[p].kind = http[p].endpoint
              /\ ~Unparsable(http[p].body.descriptor)
              /\ AcceptedKind(p)

\* a second request, schema-invalid, arrives over a catalog that a first one filled
C15_Witness ==
    \E p \in Procs :
        /\ http[p].endpoint = "unprovision"
        /\ http[p].unpacked.type = "ValidationError"
        /\ http[p].unpacked.errors[1] = <<"Failed to parse the descriptor">>
        /\ catalog["container"] # {}
        /\ calls[p] = <<>>
        /\ pc[p] = "done"

\* the typed outcomes of a method of the provision service
TypedOutcomes(kind) ==
    IF kind = "validate"
    THEN {"None", "ValidationError", "SystemErr"}
    ELSE {"ProvisioningStatus", "SystemErr"}

\* C16: a provision, unprovision or validate call that has ended has returned a typed
\* outcome (provision and unprovision: ProvisioningStatus or SystemErr; validate: the
\* no-error signal, ValidationError or SystemErr) and no exception has left it, also
\* when a gateway operation faulted, when an id was too short for name derivation and
\* when provision built its success response; and a call in which a gateway operation
\* faulted has ended.
C16_TypedOutcome ==
    \A p \in Procs :
        request[p].kind # "none" =>
            /\ pc[p] = "done" => result[p].type \in TypedOutcomes(request[p].kind)
            /\ result[p].type # "exception"
            /\ result[p].type = "ProvisioningStatus" => result[p].status = "COMPLETED"
            /\ (calls[p] # <<>> /\ Last(calls[p]).raised # None) => pc[p] = "done"

\* the second output port has an id too short for its name: the delete of the first
\* one was issued, the second raised inside the gateway
C16_Witness ==
    \E p \in Procs :
        /\ HasReturned(p, "unprovision")
        /\ Len(request[p].dp.components) = 2
        /\ Len(request[p].dp.components[2].id) < 7
        /\ Len(calls[p]) = 2
        /\ Len(client[p]) = 1
        /\ result[p].type = "SystemErr"

\* the text with which the message of each gateway operation's ServiceError begins
FailureText(op) ==
    CASE op = "create_or_update_generic_storage_service" ->
            "Failed to create or update storage service "
      [] op = "create_or_update_container_custom_attributes" ->
            "Failed to create or update container custom attributes"
      [] op = "create_or_update_domain" -> "Failed to create or update domain "
      [] op = "create_or_update_dp" -> "Failed to create or update DP "
      [] op = "create_or_update_op" -> "Failed to create or update Output Port "
      [] op = "delete_dp" -> "Failed to delete DP "
      [] op = "delete_op" -> "Failed to delete Output Port "
      [] op = "get_all_classification_tags" -> "Failed to retrieve classification tags"
      [] op = "get_classification_tag" -> "Failed to retrieve classification tag "
      [] op = "get_all_glossary_terms" -> "Failed to retrieve glossary terms"
      [] op = "get_glossary_term" -> "Failed to retrieve glossary term "

\* C17: whenever a call of the underlying client raises inside a gateway operation,
\* that call is the operation's last one and the operation raises the service error
\* whose message is the operation's own failure text, what it was about, ". Details: "
\* and the text of the client's exception; and whatever a gateway operation raises is
\* a service error with a message of that form, never the client's exception itself.
C17_GatewayWrapsFaults ==
    \A p \in Procs :
        calls[p] # <<>> =>
            LET c == calls[p][1]
                log == client[p]
            IN  /\ \A k \in 1..Len(log) :
                      log[k].raised # None =>
                          /\ k = Len(log)
                          /\ c.raised # None
                          /\ Last(c.raised[1]) = log[k].raised[1]
                /\ c.raised # None =>
                      /\ Len(c.raised[1]) >= 3
                      /\ c.raised[1][1] = FailureText(c.op)
                      /\ c.raised[1][Len(c.raised[1]) - 1] = ". Details: "

\* the lookup of delete_op found the container and the delete raised
C17_Witness ==
    \E p \in Procs :
        /\ calls[p] # <<>>
        /\ calls[p][1].op = "delete_op"
        /\ Len(client[p]) = 2
        /\ client[p][2].raised = <<"Timeout">>
        /\ Last(calls[p][1].raised[1]) = "Timeout"

\* C18: when a provision or an unprovision call has returned for a descriptor whose
\* data product id has fewer than six segments, or one of whose output port ids has
\* fewer than seven, it has returned SystemErr, not a ValidationError, not a status
\* and not an exception; when no client call raised and the type lookup was answered,
\* the error ends with the text of the failed derivation.
C18_ShortUrn ==
    \A p \in Procs :
        \A kind \in {"provision", "unprovision"} :
            (HasReturned(p, kind) /\ ~WellFormed(request[p].dp)) =>
                /\ result[p].type = "SystemErr"
                /\ EnvironmentQuiet(client[p]) => Last(result[p].error) = IndexError

\* a provision of a data product with a five-segment id: the services and the domain
\* were written, the derivation of the data product name failed
C18_Witness ==
    \E p \in Procs :
        /\ HasReturned(p, "provision")
        /\ request[p].dp.id = ShortDpUrn
        /\ EnvironmentQuiet(client[p])
        /\ Len(client[p]) > 0
        /\ result[p].type = "SystemErr"
        /\ Last(result[p].error) = IndexError

(***************************** callers of the codec ************************)
MaxUrnLen == 9
UrnAlphabet == {"a", "b", ":"}
\* the ids handed to the codec: every text of at most MaxUrnLen characters
UrnTexts == UNION {[1..n -> UrnAlphabet] : n \in 0..MaxUrnLen}

\* what a call of a derivation left: the exception, or the text it returned
Derived(derived) == [raised |-> derived.raised, text |-> FString(derived.name)]

InitCodec ==
    /\ InitServing
    /\ codec \in {[id |-> text, dp_name |-> None, component_name |-> None] : text \in UrnTexts}

DeriveDpName ==
    /\ codec.dp_name = None
    /\ codec' = [codec EXCEPT !.dp_name = Some(Derived(_get_dp_name_from_id(split(codec.id))))]
    /\ UNCHANGED <<catalog, pc, request, idx, calls, client, listed, result, cat0, prev,
                   ncalls, http, twin>>

DeriveComponentName ==
    /\ codec.component_name = None
    /\ codec' = [codec EXCEPT
                    !.component_name =
                        Some(Derived(_get_component_name_from_id(split(codec.id))))]
    /\ UNCHANGED <<catalog, pc, request, idx, calls, client, listed, result, cat0, prev,
                   ncalls, http, twin>>

NextCodec ==
    \/ DeriveDpName
    \/ DeriveComponentName

SpecCodec == InitCodec /\ [][NextCodec]_vars

\* the positions of the colons of a text, and the position of its n-th colon
Colons(text) == {k \in 1..Len(text) : text[k] = ":"}
Colon(text, n) ==
    CHOOSE k \in Colons(text) : Cardinality({j \in Colons(text) : j <= k}) = n
\* the colon-delimited segments of a text are one more than its colons
Segments(text) == Cardinality(Colons(text)) + 1
\* where the n-th segment of a text ends: before the n-th colon, or with the text
SegmentEnd(text, n) == IF Segments(text) > n THEN Colon(text, n) - 1 ELSE Len(text)

\* C19: for every id of at least seven segments, the derived data product name is the
\* text of the id between its third colon and the end of its sixth segment (A:B:C),
\* and the derived component name is the text between its third colon and the end of
\* its seventh segment (A:B:C:D); neither derivation raised. The names depend on the
\* id alone.
C19_DerivedNames ==
    Segments(codec.id) >= 7 =>
        /\ codec.dp_name # None =>
              codec.dp_name[1] =
                  [raised |-> None,
                   text |-> SubSeq(codec.id, Colon(codec.id, 3) + 1, SegmentEnd(codec.id, 6))]
        /\ codec.component_name # None =>
              codec.component_name[1] =
                  [raised |-> None,
                   text |-> SubSeq(codec.id, Colon(codec.id, 3) + 1, SegmentEnd(codec.id, 7))]

\* both names were derived from :::a:b:: , a text of exactly seven segments whose
\* last two are empty
C19_Witness ==
    /\ codec.id = <<":", ":", ":", "a", ":", "b", ":", ":">>
    /\ codec.dp_name = Some([raised |-> None, text |-> <<"a", ":", "b", ":">>])
    /\ codec.component_name = Some([raised |-> None, text |-> <<"a", ":", "b", ":", ":">>])

\* C20 as stated: the derivation of the data product name succeeds exactly for the
\* ids of at least five segments, and the derivation of the component name exactly for
\* the ids of at least seven.
C20_AsStated ==
    /\ codec.dp_name # None =>
          (codec.dp_name[1].raised = None <=> Segments(codec.id) >= 5)
    /\ codec.component_name # None =>
          (codec.component_name[1].raised = None <=> Segments(codec.id) >= 7)

\* C20: the derivation of the data product name succeeds exactly for the ids of at
\* least six segments and raises IndexError for every shorter id; the derivation of
\* the component name succeeds exactly for the ids of at least seven segments and
\* raises IndexError for every shorter id.
C20_SegmentThresholds ==
    /\ codec.dp_name # None =>
          codec.dp_name[1].raised =
              (IF Segments(codec.id) >= 6 THEN None ELSE Some(IndexError))
    /\ codec.component_name # None =>
          codec.component_name[1].raised =
              (IF Segments(codec.id) >= 7 THEN None ELSE Some(IndexError))

\* the data product name was asked of a:b:a:b: , a text of exactly five segments, and
\* the derivation raised
C20_Witness ==
    /\ codec.id = <<"a", ":", "b", ":", "a", ":", "b", ":">>
    /\ Segments(codec.id) = 5
    /\ codec.dp_name = Some([raised |-> Some(IndexError), text |-> <<>>])

(***************************** the same call, made twice *******************)
\* the two calls that are compared, each in a process of its own
First == CHOOSE p \in Procs : \A q \in Procs : p <= q
Second == CHOOSE p \in Procs : p # First

\* the first call has returned: the catalog it left is kept and the catalog is put
\* back to the one the call started from
Rewind ==
    /\ twin = None
    /\ HasReturned(First, "unprovision")
    /\ twin' = Some(catalog)
    /\ catalog' = cat0[First]
    /\ UNCHANGED <<pc, request, idx, calls, client, listed, result, cat0, prev, ncalls,
                   http, codec>>

\* the unprovision of the first call's descriptor, with the other value of remove_data
BeginOtherFlag ==
    /\ twin # None
    /\ pc[Second] = "idle"
    /\ Begin(Second, "unprovision", request[First].dp, ~request[First].remove_data,
             "delete_ports", FALSE)

\* provisions and unprovisions fill and empty the catalog; one unprovision is then
\* made again from the catalog it started from, with the other value of the flag
NextFlag ==
    \/ twin = None /\ BeginProvision(First)
    \/ twin = None /\ Provision(First)
    \/ twin = None /\ BeginUnprovision(First)
    \/ twin = None /\ Unprovision(First)
    \/ Rewind
    \/ BeginOtherFlag
    \/ Unprovision(Second)

SpecFlag == Init /\ [][NextFlag]_vars

(***************************** concurrent calls ****************************)
\* Two requests are served at the same time, each by a handler of its own: the
\* handlers share nothing but the remote catalog, which serves one client call at
\* a time. A gateway operation of several client calls is therefore several steps.

\* a client call of a gateway operation that goes on after it
ClientStep(p, cat, sent, next) ==
    /\ catalog' = cat
    /\ client' = [client EXCEPT ![p] = Append(@, sent)]
    /\ pc' = [pc EXCEPT ![p] = next]
    /\ UNCHANGED <<request, calls, listed, result, cat0, prev, ncalls, http, codec, twin>>

CustomAttributesCall ==
    GatewayCall("create_or_update_container_custom_attributes", NoDp, NoPort, "", None)

\* GET /metadata/types/name/string: the operation ends here when the call raises or
\* answers nothing
CustomAttributesGet(p) ==
    /\ pc[p] = "custom_attributes"
    /\ \E f \in Faults(1), string_type \in {None, Some(StringType)} :
          IF f.at = 1 \/ string_type = None
          THEN /\ Issue(p, CustomAttributesCall,
                        create_or_update_container_custom_attributes(catalog, string_type, f),
                        "domain", Pending)
               /\ UNCHANGED idx
          ELSE /\ ClientStep(p, catalog,
                             ClientCall("get", "type", <<"string">>, None, string_type, None),
                             "custom_property")
               /\ idx' = [idx EXCEPT ![p] = 1]
    /\ UNCHANGED listed

\* the upsert of the custom property idx[p], with the string type the GET answered
CustomAttributesUpsert(p) ==
    /\ pc[p] = "custom_property"
    /\ LET k == idx[p]
           string_type == (CHOOSE c \in Range(client[p]) : c.call = "get").returned[1]
           property == CustomProperty(CustomAttributeNames[k], string_type)
           upsert(r) == ClientCall("create_or_update_custom_property", "customProperty",
                                   property.fqn, Some(property), None, r)
           cat == ClientCreateOrUpdate(catalog, "customProperty", property)
       IN  \E f \in Faults(1) :
              IF f.at = 1
              THEN /\ Issue(p, CustomAttributesCall,
                            Raised(catalog,
                                   ErrorMessage("Failed to create or update container custom attributes",
                                                <<>>, f.detail),
                                   <<upsert(Some(f.detail))>>),
                            "domain", Pending)
                   /\ UNCHANGED idx
              ELSE IF k = Len(CustomAttributeNames)
              THEN /\ Issue(p, CustomAttributesCall, Returned(cat, <<upsert(None)>>),
                            "domain", Pending)
                   /\ idx' = [idx EXCEPT ![p] = 1]
              ELSE /\ ClientStep(p, cat, upsert(None), "custom_property")
                   /\ idx' = [idx EXCEPT ![p] = k + 1]
    /\ UNCHANGED listed

\* an unprovision that deletes the data product first and the containers after it
Deleting_DpFirst(p) ==
    LET dp == request[p].dp
        ports == get_output_ports(dp)
        last == idx[p] = Len(ports) + 1
        then == [idx |-> idx[p] + 1,
                 next |-> IF last THEN "done" ELSE "delete_ports",
                 value |-> IF last THEN ProvisioningStatus(COMPLETED, None) ELSE Pending]
    IN  IF idx[p] > 1
        THEN [etype |-> "container", subject |-> ports[idx[p] - 1].id,
              fqn |-> ContainerFqn(_get_component_name_from_id(ports[idx[p] - 1].id).name),
              prefix |-> "Failed to delete Output Port ",
              call |-> GatewayCall("delete_op", NoDp, ports[idx[p] - 1], "", None),
              idx |-> then.idx, next |-> then.next, value |-> then.value]
        ELSE [etype |-> "dataProduct", subject |-> dp.id,
              fqn |-> _get_dp_name_from_id(dp.id).name,
              prefix |-> "Failed to delete DP ",
              call |-> GatewayCall("delete_dp", dp, NoPort, "", None),
              idx |-> then.idx, next |-> then.next, value |-> then.value]

\* what unprovision deletes next: the container of the output port idx[p], and the
\* data product after the last of them
Deleting(p) ==
    LET dp == request[p].dp
        ports == get_output_ports(dp)
    IN  IF idx[p] <= Len(ports)
        THEN [etype |-> "container", subject |-> ports[idx[p]].id,
              fqn |-> ContainerFqn(_get_component_name_from_id(ports[idx[p]].id).name),
              prefix |-> "Failed to delete Output Port ",
              call |-> GatewayCall("delete_op", NoDp, ports[idx[p]], "", None),
              idx |-> idx[p] + 1, next |-> "delete_ports", value |-> Pending]
        ELSE [etype |-> "dataProduct", subject |-> dp.id,
              fqn |-> _get_dp_name_from_id(dp.id).name,
              prefix |-> "Failed to delete DP ",
              call |-> GatewayCall("delete_dp", dp, NoPort, "", None),
              idx |-> idx[p], next |-> "done", value |-> ProvisioningStatus(COMPLETED, None)]

\* get_by_name of delete_op and delete_dp: the operation ends here when the call
\* raises or finds nothing
DeleteLookup(p) ==
    /\ pc[p] = "delete_ports"
    /\ LET d == Deleting(p)
           existing == ClientGetByName(catalog, d.etype, d.fqn)
       IN  \E f \in Faults(1) :
              IF f.at = 1 \/ existing = None
              THEN /\ Issue(p, d.call,
                            IF d.etype = "container"
                            THEN delete_op(catalog, d.call.port, f)
                            ELSE delete_dp(catalog, d.call.dp, f),
                            d.next, d.value)
                   /\ idx' = [idx EXCEPT ![p] = d.idx]
              ELSE /\ ClientStep(p, catalog,
                                 ClientCall("get_by_name", d.etype, d.fqn, None, existing, None),
                                 "delete_found")
                   /\ UNCHANGED idx
    /\ UNCHANGED listed

\* the delete of the entity that get_by_name found, by the id it had then
DeleteFound(p) ==
    /\ pc[p] = "delete_found"
    /\ LET d == Deleting(p)
           existing == Last(client[p]).returned[1]
           delete(r) == ClientCall("delete", d.etype, existing.fqn, None, None, r)
       IN  \E f \in Faults(1) :
              Issue(p, d.call,
                    IF f.at = 1
                    THEN Raised(catalog, ErrorMessage(d.prefix, d.subject, f.detail),
                                <<delete(Some(f.detail))>>)
                    ELSE Returned(ClientDelete(catalog, d.etype, existing.fqn),
                                  <<delete(None)>>),
                    d.next, d.value)
    /\ idx' = [idx EXCEPT ![p] = Deleting(p).idx]
    /\ UNCHANGED listed

\* the descriptors of a request that arrives while the other handler serves dp: the
\* same descriptor, and the one without its last output port
Versions(dp) ==
    {dp, [dp EXCEPT !.components = SubSeq(@, 1, Len(@) - 1)]}
Arriving(p) ==
    IF \E q \in Procs \ {p} : pc[q] # "idle"
    THEN Versions(request[CHOOSE q \in Procs \ {p} : pc[q] # "idle"].dp)
    ELSE Descriptors

\* each handler serves one request: a provision, and with it another provision or
\* an unprovision
ConcurrentProvision(p) ==
    /\ pc[p] = "idle"
    /\ \E dp \in Arriving(p) : Begin(p, "provision", dp, FALSE, "storage_service", FALSE)

ConcurrentUnprovision(p) ==
    /\ pc[p] = "idle"
    /\ p = Second
    /\ \E dp \in Arriving(p) : Begin(p, "unprovision", dp, FALSE, "delete_ports", FALSE)

NextConcurrent ==
    \E p \in Procs :
        \/ ConcurrentProvision(p)
        \/ ConcurrentUnprovision(p)
        \/ ProvisionStorageService(p)
        \/ CustomAttributesGet(p)
        \/ CustomAttributesUpsert(p)
        \/ ProvisionDomain(p)
        \/ ProvisionDp(p)
        \/ ProvisionPort(p)
        \/ ProvisionReturn(p)
        \/ DeleteLookup(p)
        \/ DeleteFound(p)

SpecConcurrent == Init /\ [][NextConcurrent]_vars

\* what the client raised, call by call
Raises(log) == [k \in 1..Len(log) |-> log[k].raised]
\* two calls met the same environment: as far as both went, the client raised the same
SameEnvironment(log1, log2) ==
    \A k \in 1..Len(log1) : k <= Len(log2) => log1[k].raised = log2[k].raised

\* C21: when the unprovision of one descriptor has been made from one catalog with
\* remove_data true and with remove_data false, and the client raised the same in both
\* calls, the two calls issued the same gateway operations in the same order, returned
\* the same outcome and left the same catalog.
C21_RemoveDataChangesNothing ==
    (/\ twin # None
     /\ HasReturned(Second, "unprovision")
     /\ SameEnvironment(client[First], client[Second])) =>
        /\ request[First].remove_data # request[Second].remove_data
        /\ cat0[First] = cat0[Second]
        /\ calls[First] = calls[Second]
        /\ client[First] = client[Second]
        /\ result[First] = result[Second]
        /\ catalog = twin[1]

\* both calls deleted the two containers and the data product of a provisioned
\* descriptor and returned COMPLETED
C21_Witness ==
    /\ twin # None
    /\ HasReturned(Second, "unprovision")
    /\ SameEnvironment(client[First], client[Second])
    /\ request[First].remove_data /\ ~request[Second].remove_data
    /\ Len(calls[Second]) = 3
    /\ result[Second] = ProvisioningStatus(COMPLETED, None)
    /\ Cardinality(cat0[Second]["container"]) = 2
    /\ catalog["container"] = {}
    /\ catalog["dataProduct"] = {}

\* C22: what the unpacking of an unprovisioning request returned is, when the
\* descriptor parses to a data product, that data product together with a flag that
\* is true exactly when the envelope carries removeData true (false when the envelope
\* carries false or no flag at all), and the service is called with both; when the
\* parsing returns a ValidationError, it is that ValidationError, with no flag.
C22_UnpackUnprovisioning ==
    \A p \in Procs :
        http[p].endpoint = "unprovision" =>
            LET body == http[p].body
                parsed == unpack_provisioning_request(body)
                unpacked == http[p].unpacked
            IN  /\ parsed.type \in {"DataProduct", "ValidationError"}
                /\ parsed.type = "DataProduct" =>
                      /\ unpacked = [type |-> "Tuple", dp |-> parsed.dp,
                                     remove_data |-> (body.removeData = Some(TRUE))]
                      /\ body.descriptor = YamlOf(unpacked.dp)
                      /\ request[p].dp = unpacked.dp
                      /\ request[p].remove_data = unpacked.remove_data
                /\ parsed.type = "ValidationError" =>
                      /\ unpacked = parsed
                      /\ "remove_data" \notin DOMAIN unpacked
                      /\ result[p] = parsed

\* an envelope without removeData whose descriptor parses: the flag is false
C22_Witness ==
    \E p \in Procs :
        /\ http[p].endpoint = "unprovision"
        /\ http[p].body.removeData = None
        /\ http[p].unpacked.type = "Tuple"
        /\ http[p].unpacked.remove_data = FALSE
        /\ HasReturned(p, "unprovision")

\* C23: what the unpacking of an ACL update returned is, when the text in
\* provisionInfo.request is the descriptor of a data product, that data product
\* together with the subjects of the request, the same ones in the same order; when
\* the text is not YAML, is not a mapping or lacks a required field, it is a
\* ValidationError.
C23_UnpackUpdateAcl ==
    \A p \in Procs :
        http[p].endpoint = "updateacl" =>
            LET body == http[p].body
                text == body.provisionInfo.request
                unpacked == http[p].unpacked
            IN  IF \E dp \in ApiDescriptors : text = YamlOf(dp)
                THEN /\ unpacked.type = "Tuple"
                     /\ text = YamlOf(unpacked.dp)
                     /\ unpacked.refs = body.refs
                ELSE /\ unpacked.type = "ValidationError"
                     /\ result[p] = unpacked

\* two subjects, bigData before user:testuser, came out of the unpacking in that
\* order with the data product of the descriptor
C23_Witness ==
    \E p \in Procs :
        /\ http[p].endpoint = "updateacl"
        /\ http[p].body.refs = <<"bigData", "user:testuser">>
        /\ http[p].unpacked = UnpackedAcl(DataProduct(<<PortA>>), <<"bigData", "user:testuser">>)

\* C24: a provision call that has returned did not return a ValidationError or an
\* exception, and a status it returned is COMPLETED; when none of its gateway
\* operations raised, it returned ProvisioningStatus COMPLETED whose public info holds
\* exactly one entry, keyed by the id of the data product, whose link is the base url of
\* the catalog followed by dataProduct/ and the quoted name of the data product.
C24_ProvisionSuccess ==
    \A p \in Procs :
        HasReturned(p, "provision") =>
            LET dp == request[p].dp
            IN  /\ result[p].type \in {"ProvisioningStatus", "SystemErr"}
                /\ result[p].type = "ProvisioningStatus" => result[p].status = COMPLETED
                /\ (\A k \in 1..Len(calls[p]) : calls[p][k].raised = None) =>
                      /\ result[p].type = "ProvisioningStatus"
                      /\ result[p].status = COMPLETED
                      /\ result[p].info # None
                      /\ Len(result[p].info[1]) = 1
                      /\ result[p].info[1][1].key = dp.id
                      /\ result[p].info[1][1].href =
                             <<api_base_url, "/", "dataProduct/",
                               dp.id[4], "%3A", dp.id[5], "%3A", dp.id[6]>>

\* a provision of a data product with two output ports in which nothing raised
C24_Witness ==
    \E p \in Procs :
        /\ HasReturned(p, "provision")
        /\ Len(request[p].dp.components) = 2
        /\ Len(calls[p]) = 6
        /\ \A k \in 1..Len(calls[p]) : calls[p][k].raised = None
        /\ result[p].type = "ProvisioningStatus"
        /\ result[p].info[1][1].key = DpUrn

\* the custom-property upserts among the client calls of a log, in the order issued
Upserts(log) == SelectSeq(log, LAMBDA c : c.call = "create_or_update_custom_property")
UpsertedNames(log) == [k \in 1..Len(Upserts(log)) |-> Upserts(log)[k].sent[1].name]

\* C25: the bootstrap of the container custom attributes first asks the catalog for
\* the string type and then upserts kind, platform and technology in this order, each
\* typed by the string type: when it returned, exactly these three upserts were issued;
\* an upsert that raises is the last one issued; when the catalog did not answer the
\* string type, the bootstrap raised the service error that says so and issued no
\* upsert at all.
C25_CustomAttributesBootstrap ==
    \A p \in Procs :
        (Len(calls[p]) = 1
         /\ calls[p][1].op = "create_or_update_container_custom_attributes") =>
            LET log == client[p]
                names == UpsertedNames(log)
                raised == calls[p][1].raised
            IN  /\ Len(log) >= 1
                /\ log[1].call = "get"
                /\ Upserts(log) = Tail(log)
                /\ names = SubSeq(<<"kind", "platform", "technology">>, 1, Len(names))
                /\ log[1].returned # None =>
                      \A k \in 1..Len(Upserts(log)) :
                          Upserts(log)[k].sent[1].propertyType =
                              [id |-> log[1].returned[1].id, type |-> log[1].returned[1].name]
                /\ raised = None => names = <<"kind", "platform", "technology">>
                /\ \A k \in 1..Len(log) : log[k].raised # None => k = Len(log) /\ raised # None
                /\ (log[1].raised = None /\ log[1].returned = None) =>
                      /\ raised # None
                      /\ Last(raised[1]) = StringTypeMissing
                      /\ raised[1][1] = "Failed to create or update container custom attributes"
                      /\ names = <<>>
                      /\ Len(log) = 1

\* the lookup of the string type returned nothing: the bootstrap raised without an
\* upsert
C25_Witness ==
    \E p \in Procs :
        /\ Len(calls[p]) = 1
        /\ calls[p][1].op = "create_or_update_container_custom_attributes"
        /\ Len(client[p]) = 1
        /\ client[p][1].raised = None /\ client[p][1].returned = None
        /\ calls[p][1].raised # None
        /\ catalog["customProperty"] = {}

(***************************** glossary lookup *****************************)
\* most terms the catalog lists
MaxTerms == 2

\* texts that are searched are given by their characters
LowerChar(c) ==
    CASE c = "A" -> "a" [] c = "B" -> "b" [] c = "D" -> "d" [] c = "G" -> "g" [] OTHER -> c
\* str.lower()
lower(text) == [k \in 1..Len(text) |-> LowerChar(text[k])]
\* "sub in text": sub is a run of consecutive characters of text
In(sub, text) ==
    \E i \in 0..(Len(text) - Len(sub)) : SubSeq(text, i + 1, i + Len(sub)) = sub

\* a glossary term as the catalog lists it: the fully qualified name and the domain
\* may be missing, and so may the name of the domain
GlossaryTerm(fullyQualifiedName, name, glossary, domain) ==
    [fullyQualifiedName |-> fullyQualifiedName, name |-> name, glossary |-> glossary,
     domain |-> domain]
EntityReference(name) == [name |-> name]

TermA == GlossaryTerm(Some(<<"g", ".", "a">>), "a", "g",
                      Some(EntityReference(Some(<<"D", "o", "m">>))))
TermAb == GlossaryTerm(Some(<<"g", ".", "A", "b">>), "Ab", "g", None)
TermUnnamed == GlossaryTerm(None, "c", "g", Some(EntityReference(Some(<<"d", "o", "m">>))))
TermB == GlossaryTerm(Some(<<"h", ".", "b">>), "b", "h", Some(EntityReference(None)))
TermOps == GlossaryTerm(Some(<<"h", ".", "a", "b">>), "ab", "h",
                        Some(EntityReference(Some(<<"o", "p", "s">>))))
Terms == {TermA, TermAb, TermUnnamed, TermB, TermOps}

\* what the catalog lists: up to MaxTerms different terms, in any order
TermLists == {l \in SeqsUpTo(Terms, MaxTerms) : Cardinality(Range(l)) = Len(l)}

\* the parameters of a lookup: an optional body with an optional domain, the page
\* number, the page length and an optional text
Filters == {None, Some(<<>>), Some(<<"a">>), Some(<<"A", "B">>), Some(<<"G", ".">>)}
CustomUrlPickerResourcesRequestBody(domain) == [domain |-> domain]
RequestBodies ==
    {None} \cup {Some(CustomUrlPickerResourcesRequestBody(d)) :
                    d \in {None, Some(<<>>), Some(<<"D", "O">>), Some(<<"o", "m">>), Some(<<"x">>)}}
Offsets == 0..2
Limits == 0..2
Lookup(resources_request_body, offset, limit, filter) ==
    [resources_request_body |-> resources_request_body, offset |-> offset,
     limit |-> limit, filter |-> filter]

CustomUrlPickerItem(term) ==
    [id |-> term.fullyQualifiedName[1], glossary |-> term.glossary, name |-> term.name,
     fqn |-> term.fullyQualifiedName[1]]
CustomUrlPickerSystemError(errors) == [type |-> "CustomUrlPickerSystemError", errors |-> errors]
CustomUrlPickerValidationError(errors) ==
    [type |-> "CustomUrlPickerValidationError", errors |-> errors]
Items(items) == [type |-> "list", items |-> items]

\* a text filter that compares the characters as they are
filtered_terms_CaseSensitive(all_terms, filter) ==
    IF filter # None /\ filter[1] # <<>>
    THEN SelectSeq(all_terms,
                   LAMBDA term : /\ term.fullyQualifiedName # None
                                 /\ In(filter[1], term.fullyQualifiedName[1]))
    ELSE all_terms

\* "if filter": an empty text is no filter
filtered_terms(all_terms, filter) ==
    IF filter # None /\ filter[1] # <<>>
    THEN SelectSeq(all_terms,
                   LAMBDA term : /\ term.fullyQualifiedName # None
                                 /\ In(lower(filter[1]), lower(term.fullyQualifiedName[1])))
    ELSE all_terms

filtered_terms_by_domain(terms, resources_request_body) ==
    IF /\ resources_request_body # None
       /\ resources_request_body[1].domain # None
       /\ resources_request_body[1].domain[1] # <<>>
    THEN SelectSeq(terms,
                   LAMBDA term : /\ term.fullyQualifiedName # None
                                 /\ term.domain # None
                                 /\ term.domain[1].name # None
                                 /\ term.domain[1].name[1] # <<>>
                                 /\ In(lower(resources_request_body[1].domain[1]),
                                       lower(term.domain[1].name[1])))
    ELSE terms

\* a slice that starts at the page number: terms[offset : offset + limit]
paginated_terms_FromOffset(terms, offset, limit) ==
    LET stop == IF offset + limit <= Len(terms) THEN offset + limit ELSE Len(terms)
    IN  IF offset >= stop THEN <<>> ELSE SubSeq(terms, offset + 1, stop)

\* terms[offset * limit : (offset * limit) + limit]
paginated_terms(terms, offset, limit) ==
    LET stop == IF offset * limit + limit <= Len(terms)
                THEN offset * limit + limit ELSE Len(terms)
    IN  IF offset * limit >= stop THEN <<>> ELSE SubSeq(terms, offset * limit + 1, stop)

\* a lookup that gives a term without a fully qualified name an empty one
summaries_KeepingUnnamed(terms) ==
    [k \in 1..Len(terms) |->
        [id |-> OrElse(terms[k].fullyQualifiedName, <<>>), glossary |-> terms[k].glossary,
         name |-> terms[k].name, fqn |-> OrElse(terms[k].fullyQualifiedName, <<>>)]]

\* [CustomUrlPickerItem(...) for term in paginated_terms if term.fullyQualifiedName]
summaries(terms) ==
    LET named == SelectSeq(terms, LAMBDA term : term.fullyQualifiedName # None)
    IN  [k \in 1..Len(named) |-> CustomUrlPickerItem(named[k])]

\* all_terms: what the catalog lists when the listing does not raise
get_terms(cat, all_terms, f, lookup) ==
    LET listing == get_all_glossary_terms(cat, all_terms, f)
        page == paginated_terms(
                    filtered_terms_by_domain(filtered_terms(listing.value, lookup.filter),
                                             lookup.resources_request_body),
                    lookup.offset, lookup.limit)
        call == GatewayCall("get_all_glossary_terms", NoDp, NoPort, "", listing.raised)
    IN  [calls |-> <<call>>, client |-> listing.client,
         result |-> IF listing.raised # None
                    THEN CustomUrlPickerSystemError(<<listing.raised[1]>>)
                    ELSE Items(summaries(page))]

\* the references a validation request selects, by fully qualified name
Selections == SeqsUpTo({"term1", "term2"}, MaxTerms)
ValidationSuccessful == [type |-> "str", value |-> "Validation successful"]
NotFoundError(fqn) == [error |-> <<"Glossary term ", fqn, " not found in OpenMetadata">>]

\* answers[k]: what the catalog does at the lookup of the k-th reference
RECURSIVE Lookups(_, _, _)
Lookups(cat, selected, answers) ==
    IF selected = <<>> THEN <<>>
    ELSE LET r == get_glossary_term(cat, Head(selected), Head(answers).existing,
                                    Head(answers).f)
         IN  <<r>> \o (IF r.raised # None THEN <<>>
                       ELSE Lookups(cat, Tail(selected), Tail(answers)))

\* a validation that reports the first reference that was not found, and no other
validate_terms_FirstOnly(cat, selected, answers) ==
    LET looked == Lookups(cat, selected, answers)
        not_found_terms == SelectSeq([k \in 1..Len(looked) |-> [fqn |-> selected[k], r |-> looked[k]]],
                                     LAMBDA item : item.r.raised = None /\ item.r.value = None)
    IN  [calls |-> [k \in 1..Len(looked) |->
                       GatewayCall("get_glossary_term", NoDp, NoPort, selected[k], looked[k].raised)],
         client |-> [k \in 1..Len(looked) |-> looked[k].client[1]],
         result |-> IF looked # <<>> /\ looked[Len(looked)].raised # None
                    THEN CustomUrlPickerSystemError(<<looked[Len(looked)].raised[1]>>)
                    ELSE IF not_found_terms # <<>>
                    THEN CustomUrlPickerValidationError(<<NotFoundError(not_found_terms[1].fqn)>>)
                    ELSE ValidationSuccessful]

validate_terms(cat, selected, answers) ==
    LET looked == Lookups(cat, selected, answers)
        not_found_terms == SelectSeq([k \in 1..Len(looked) |-> [fqn |-> selected[k], r |-> looked[k]]],
                                     LAMBDA item : item.r.raised = None /\ item.r.value = None)
    IN  [calls |-> [k \in 1..Len(looked) |->
                       GatewayCall("get_glossary_term", NoDp, NoPort, selected[k], looked[k].raised)],
         client |-> [k \in 1..Len(looked) |-> looked[k].client[1]],
         result |-> IF looked # <<>> /\ looked[Len(looked)].raised # None
                    THEN CustomUrlPickerSystemError(<<looked[Len(looked)].raised[1]>>)
                    ELSE IF not_found_terms # <<>>
                    THEN CustomUrlPickerValidationError(
                             [k \in 1..Len(not_found_terms) |->
                                 NotFoundError(not_found_terms[k].fqn)])
                    ELSE ValidationSuccessful]

\* a call of a method of GlossaryTermsService: r is what the method did
Looked(p, operation, parameters, r) ==
    /\ pc[p] = "idle"
    /\ pc' = [pc EXCEPT ![p] = "done"]
    /\ http' = [http EXCEPT ![p] = [endpoint |-> operation, body |-> parameters,
                                    unpacked |-> Pending, response |-> Pending]]
    /\ calls' = [calls EXCEPT ![p] = r.calls]
    /\ client' = [client EXCEPT ![p] = r.client]
    /\ result' = [result EXCEPT ![p] = r.result]
    /\ UNCHANGED <<catalog, request, idx, listed, cat0, prev, ncalls, codec, twin>>

CallGetTerms(p) ==
    /\ pc[p] = "idle"
    /\ \E all_terms \in TermLists, f \in Faults(1), body \in RequestBodies,
       offset \in Offsets, limit \in Limits, filter \in Filters :
        Looked(p, "get_terms", Lookup(body, offset, limit, filter),
               get_terms(catalog, all_terms, f, Lookup(body, offset, limit, filter)))

CallValidateTerms(p) ==
    /\ pc[p] = "idle"
    /\ \E selected \in Selections :
        \E answers \in [1..Len(selected) ->
                           {[existing |-> e, f |-> f] :
                               e \in {None, Some([fqn |-> <<"found">>])}, f \in Faults(1)}] :
            Looked(p, "validate_terms", selected, validate_terms(catalog, selected, answers))

NextGlossary ==
    \E p \in SeqProcs :
        \/ CallGetTerms(p)
        \/ CallValidateTerms(p)

SpecGlossary == Init /\ [][NextGlossary]_vars

\* a lookup of terms has returned a list: what the catalog listed, and the parameters
ReturnedTerms(p) == http[p].endpoint = "get_terms" /\ result[p].type = "list"
ListedTerms(p) == client[p][1].returned[1]
TextSupplied(lookup) == lookup.filter # None /\ lookup.filter[1] # <<>>
DomainSupplied(lookup) ==
    /\ lookup.resources_request_body # None
    /\ lookup.resources_request_body[1].domain # None
    /\ lookup.resources_request_body[1].domain[1] # <<>>
\* the term has a fully qualified name that contains the text, whatever the case
MatchesText(term, lookup) ==
    /\ term.fullyQualifiedName # None
    /\ In(lower(lookup.filter[1]), lower(term.fullyQualifiedName[1]))
\* the term has a domain whose name contains the requested domain, whatever the case
MatchesDomain(term, lookup) ==
    /\ term.domain # None
    /\ term.domain[1].name # None
    /\ In(lower(lookup.resources_request_body[1].domain[1]), lower(term.domain[1].name[1]))
\* the terms a lookup is to return from, in the order listed: the terms that have a
\* fully qualified name and satisfy the filters supplied
Eligible(all_terms, lookup) ==
    SelectSeq(all_terms,
              LAMBDA term : /\ term.fullyQualifiedName # None
                            /\ TextSupplied(lookup) => MatchesText(term, lookup)
                            /\ DomainSupplied(lookup) => MatchesDomain(term, lookup))
\* positions offset * limit + 1 to offset * limit + limit of a list, as far as it goes
Page(terms, offset, limit) ==
    [k \in 1..(IF Len(terms) <= offset * limit THEN 0
               ELSE IF Len(terms) - offset * limit < limit
               THEN Len(terms) - offset * limit ELSE limit) |-> terms[offset * limit + k]]
FqnsOf(terms) == [k \in 1..Len(terms) |-> terms[k].fullyQualifiedName[1]]
ItemFqns(items) == [k \in 1..Len(items) |-> items[k].fqn]

\* C26: the terms a lookup returned are the page offset (of limit terms each, counted
\* from zero) of the list of the terms that have a fully qualified name and satisfy the
\* filters supplied, in the order the catalog listed them.
C26_PageOfFilteredTerms ==
    \A p \in Procs :
        ReturnedTerms(p) =>
            LET lookup == http[p].body
            IN  ItemFqns(result[p].items) =
                    FqnsOf(Page(Eligible(ListedTerms(p), lookup), lookup.offset, lookup.limit))

\* C27: every term a lookup returned is a listed term, summarised by its fully
\* qualified name, its glossary and its name, that satisfies each filter supplied (a
\* filter is supplied when it is given and not empty): its fully qualified name
\* contains the text, and it has a domain whose name contains the requested domain,
\* both whatever the case; and when the first page is long enough for the whole list,
\* every listed term that has a fully qualified name and satisfies the filters supplied
\* is returned.
C27_Filters ==
    \A p \in Procs :
        ReturnedTerms(p) =>
            LET lookup == http[p].body
                items == result[p].items
            IN  /\ \A k \in 1..Len(items) :
                      \E term \in Range(ListedTerms(p)) :
                          /\ term.fullyQualifiedName = Some(items[k].fqn)
                          /\ items[k] = [id |-> items[k].fqn, glossary |-> term.glossary,
                                         name |-> term.name, fqn |-> items[k].fqn]
                          /\ TextSupplied(lookup) => MatchesText(term, lookup)
                          /\ DomainSupplied(lookup) => MatchesDomain(term, lookup)
                /\ (lookup.offset = 0 /\ lookup.limit >= Len(ListedTerms(p))) =>
                      ItemFqns(items) = FqnsOf(Eligible(ListedTerms(p), lookup))

\* the text AB found g.Ab, and the domain DO found the term of domain Dom
C27_Witness ==
    \E p \in Procs :
        /\ ReturnedTerms(p)
        /\ ListedTerms(p) = <<TermAb, TermA>>
        /\ \/ /\ http[p].body.filter = Some(<<"A", "B">>)
              /\ http[p].body.resources_request_body = None
              /\ ItemFqns(result[p].items) = <<<<"g", ".", "A", "b">>>>
           \/ /\ http[p].body.filter = None
              /\ http[p].body.resources_request_body # None
              /\ http[p].body.resources_request_body[1].domain = Some(<<"D", "O">>)
              /\ ItemFqns(result[p].items) = <<<<"g", ".", "a">>>>
        /\ http[p].body.offset = 0 /\ http[p].body.limit = 2

\* C28: a validation of selected references looks the references up one by one, in
\* the order of the request, until a lookup raises; when a lookup raised, the validation
\* returned the system error with the message of that fault; otherwise every reference
\* was looked up once, and the validation returned the success signal when every
\* lookup found a term, and else a validation error with exactly one entry per
\* reference that was not found, in the order of the request.
C28_ValidateTerms ==
    \A p \in Procs :
        http[p].endpoint = "validate_terms" =>
            LET selected == http[p].body
                log == client[p]
                missing == SelectSeq([k \in 1..Len(log) |-> [fqn |-> selected[k], c |-> log[k]]],
                                     LAMBDA l : l.c.raised = None /\ l.c.returned = None)
            IN  /\ Len(log) <= Len(selected)
                /\ \A k \in 1..Len(log) :
                      /\ log[k].call = "get_by_name"
                      /\ log[k].etype = "glossaryTerm"
                      /\ log[k].key = <<selected[k]>>
                      /\ log[k].raised # None => k = Len(log)
                /\ IF log # <<>> /\ log[Len(log)].raised # None
                   THEN result[p] =
                            CustomUrlPickerSystemError(
                                <<<<"Failed to retrieve glossary term ", selected[Len(log)],
                                    ". Details: ", log[Len(log)].raised[1]>>>>)
                   ELSE /\ Len(log) = Len(selected)
                        /\ IF missing = <<>>
                           THEN result[p] = [type |-> "str", value |-> "Validation successful"]
                           ELSE /\ result[p].type = "CustomUrlPickerValidationError"
                                /\ result[p].errors =
                                       [k \in 1..Len(missing) |->
                                           [error |-> <<"Glossary term ", missing[k].fqn,
                                                        " not found in OpenMetadata">>]]

\* term2 and then term1 were selected, and neither was found
C28_Witness ==
    \E p \in Procs :
        /\ http[p].endpoint = "validate_terms"
        /\ http[p].body = <<"term2", "term1">>
        /\ Len(client[p]) = 2
        /\ result[p].type = "CustomUrlPickerValidationError"
        /\ Len(result[p].errors) = 2
        /\ result[p].errors[1].error[2] = "term2"

\* C29: whatever the text, the domain, the offset and the limit of a lookup, every
\* term it returned carries the fully qualified name of a listed term, and the terms
\* returned are no more than the listed terms that have one.
C29_UnnamedNeverReturned ==
    \A p \in Procs :
        ReturnedTerms(p) =>
            LET named == SelectSeq(ListedTerms(p), LAMBDA term : term.fullyQualifiedName # None)
            IN  /\ \A k \in 1..Len(result[p].items) :
                      /\ result[p].items[k].fqn # <<>>
                      /\ result[p].items[k].id = result[p].items[k].fqn
                      /\ Some(result[p].items[k].fqn) \in
                             {term.fullyQualifiedName : term \in Range(named)}
                /\ Len(result[p].items) <= Len(named)

\* a term without a fully qualified name was listed first and fell on the requested
\* page, with no filter supplied: the term listed after it was returned alone
C29_Witness ==
    \E p \in Procs :
        /\ ReturnedTerms(p)
        /\ ListedTerms(p) = <<TermUnnamed, TermA>>
        /\ ~TextSupplied(http[p].body) /\ ~DomainSupplied(http[p].body)
        /\ http[p].body.offset = 0 /\ http[p].body.limit = 2
        /\ ItemFqns(result[p].items) = <<<<"g", ".", "a">>>>

(* C30: POST /v1/validate answers in one of three ways. A request whose descriptor
   was not parsed, and a ValidationError of the provision service, are answered
   with status 200 and a ValidationResult that is not valid and carries that error;
   a validation that found no error is answered with status 200 and a
   ValidationResult that is valid and carries no error; a SystemErr of the
   provision service is answered with status 500 and that SystemErr. *)
Answered(p) == http[p].endpoint = "validate" /\ http[p].response # Pending
Unparsed(p) == http[p].unpacked.type = "ValidationError"
C30_ValidateTriState ==
    \A p \in SeqProcs :
        Answered(p) =>
            LET response == http[p].response
                validate_res == result[p]
            IN  /\ Unparsed(p) =>
                        /\ response.status_code = 200
                        /\ response.content =
                               [type |-> "ValidationResult", valid |-> FALSE,
                                error |-> Some(http[p].unpacked)]
                /\ ~Unparsed(p) /\ validate_res.type = "ValidationError" =>
                        /\ response.status_code = 200
                        /\ response.content =
                               [type |-> "ValidationResult", valid |-> FALSE,
                                error |-> Some(validate_res)]
                /\ ~Unparsed(p) /\ validate_res = NoError =>
                        /\ response.status_code = 200
                        /\ response.content =
                               [type |-> "ValidationResult", valid |-> TRUE, error |-> None]
                /\ ~Unparsed(p) /\ validate_res.type = "SystemErr" =>
                        /\ response.status_code = 500
                        /\ response.content = validate_res
                /\ \/ Unparsed(p)
                   \/ validate_res.type \in {"ValidationError", "None", "SystemErr"}

\* the service found a tag or a term missing, and the endpoint answered
C30_Witness ==
    \E p \in SeqProcs :
        /\ Answered(p)
        /\ ~Unparsed(p)
        /\ result[p].type = "ValidationError"
        /\ http[p].response.status_code = 200
        /\ ~http[p].response.content.valid

(* C31: a reconciliation call always finishes. While every catalog call returns,
   with a value or with a fault, a provision of a descriptor with n output ports
   issues at most 4 + n gateway operations and an unprovision at most n + 1, a
   call issues nothing more once a gateway operation failed, and every call that
   has started returns. *)
C31_AlwaysFinishes ==
    /\ [](\A p \in SeqProcs :
            LET n == Len(get_output_ports(request[p].dp))
            IN  /\ Serving(p, "provision") => Len(calls[p]) <= 4 + n
                /\ Serving(p, "unprovision") => Len(calls[p]) <= n + 1
                /\ \A k \in 1..Len(calls[p]) :
                      calls[p][k].raised # None => k = Len(calls[p]) /\ pc[p] = "done")
    /\ \A p \in SeqProcs : Running(p) ~> pc[p] = "done"

\* a provision of two output ports that returned after its sixth operation failed
C31_Witness ==
    \E p \in SeqProcs :
        /\ HasReturned(p, "provision")
        /\ Len(get_output_ports(request[p].dp)) = 2
        /\ Len(calls[p]) = 6
        /\ Last(calls[p]).raised # None
        /\ result[p].type = "SystemErr"

\* how often name stands in the identifiers a message lists
Times(name, ids) == Cardinality({k \in 1..Len(ids) : ids[k] = name})
MessageOf(errors, first) ==
    IF \E k \in 1..Len(errors) : errors[k][1] = first
    THEN Some(errors[CHOOSE k \in 1..Len(errors) : errors[k][1] = first])
    ELSE None

(* C32: validate checks the labels of each source only against the listing of that
   source. When both listings were read, a label with source Classification whose
   name is not among the listed classification tags is reported, once, as a missing
   classification tag, whether or not a glossary term of that name is listed, and
   is not reported when the name is among the listed tags; the same holds for the
   labels with source Glossary and the listed glossary terms. *)
C32_OwnKindOnly ==
    \A p \in SeqProcs :
        ValidateRead(p) =>
            LET dp == request[p].dp
                tags == ListedNames(listed[p].tags)
                terms == ListedNames(listed[p].terms)
                errors == IF result[p].type = "ValidationError" THEN result[p].errors ELSE <<>>
                about_tags == MessageOf(errors, "Missing classification tags ")
                about_terms == MessageOf(errors, "Missing glossary terms ")
                reported(message, name) ==
                    IF message = None THEN 0 ELSE Times(name, Listed(message[1]))
            IN  /\ result[p].type \in {"ValidationError", "None"}
                /\ \A name \in Referenced(dp, CLASSIFICATION) :
                      reported(about_tags, name) = IF name \in tags THEN 0 ELSE 1
                /\ \A name \in Referenced(dp, GLOSSARY) :
                      reported(about_terms, name) = IF name \in terms THEN 0 ELSE 1

\* the two names are listed, each under the kind the labels do not ask for, and
\* both are reported missing
C32_Witness ==
    \E p \in SeqProcs :
        /\ ValidateRead(p)
        /\ request[p].dp = DataProduct(<<PortCrossed>>)
        /\ "tag1" \in ListedNames(listed[p].tags)
        /\ "term1" \in ListedNames(listed[p].terms)
        /\ result[p] = ValidationError(<<MissingTagsMessage(<<"term1">>),
                                         MissingTermsMessage(<<"tag1">>)>>)

\* the names under which a provision of dp writes the data product and a container
\* for each of its output ports
ProductKeys(dp) ==
    {SpecDpName(dp.id)}
    \cup {<<default_storage_service_name, ".">> \o SpecComponentName(dp.components[k].id) :
             k \in 1..Len(dp.components)}

\* an unprovision returned COMPLETED right after a provision of the same descriptor
\* that had returned COMPLETED
Undone(p) ==
    /\ HasReturned(p, "unprovision")
    /\ result[p].type = "ProvisioningStatus"
    /\ prev.kind = "provision"
    /\ prev.dp = request[p].dp
    /\ prev.outcome = "ProvisioningStatus"

(* C33: when a provision that returned COMPLETED is followed by an unprovision of
   the same descriptor that returns COMPLETED, the unprovision looked up exactly
   the names under which the provision wrote the data product and the containers
   of the output ports, found an entity under each of them before it deleted, and
   leaves the catalog without a data product of the derived name and without a
   container of the name storage service + "." + derived component name for every
   output port. *)
C33_UnprovisionUndoesProvision ==
    \A p \in SeqProcs :
        Undone(p) =>
            LET dp == request[p].dp
                written == {prev.keys[k] : k \in 1..Len(prev.keys)}
            IN  /\ Range(Keys(client[p])) = ProductKeys(dp)
                /\ ProductKeys(dp) \subseteq written
                /\ \A key \in ProductKeys(dp) :
                      /\ \E e \in cat0[p]["dataProduct"] \cup cat0[p]["container"] : e.fqn = key
                      /\ \A e \in catalog["dataProduct"] \cup catalog["container"] : e.fqn # key

\* the data product and its two containers were there, and are gone
C33_Witness ==
    \E p \in SeqProcs :
        /\ Undone(p)
        /\ Len(request[p].dp.components) = 2
        /\ Cardinality(cat0[p]["container"]) = 2
        /\ Cardinality(cat0[p]["dataProduct"]) = 1
        /\ catalog["container"] = {}
        /\ catalog["dataProduct"] = {}

\* both handlers have returned from kind1 and kind2 of one descriptor
BothReturned(kind1, kind2) ==
    /\ HasReturned(First, kind1)
    /\ HasReturned(Second, kind2)
    /\ request[First].dp = request[Second].dp

\* how many entities of a type the catalog holds under a name
Held(etype, fqn) == Cardinality({e \in catalog[etype] : e.fqn = fqn})

(* C34: when two provisions of one descriptor have run at the same time, their
   client calls interleaved in any way, and the catalog's environment raised nothing
   and answered the type lookups, both return COMPLETED and the catalog is the one
   that a single fault-free provision of the descriptor leaves: exactly one data
   product under the derived name and exactly one container per component. *)
C34_ConcurrentProvisions ==
    (/\ BothReturned("provision", "provision")
     /\ \A p \in Procs : EnvironmentQuiet(client[p])) =>
        LET dp == request[First].dp
        IN  /\ \A p \in Procs :
                  /\ result[p].type = "ProvisioningStatus"
                  /\ result[p].status = COMPLETED
            /\ catalog = FaultFreeProvision(EmptyCatalog, dp)
            /\ Held("dataProduct", SpecDpName(dp.id)) = 1
            /\ Cardinality(catalog["dataProduct"]) = 1
            /\ \A k \in 1..Len(dp.components) :
                  Held("container", <<default_storage_service_name, ".">>
                                    \o SpecComponentName(dp.components[k].id)) = 1
            /\ Cardinality(catalog["container"]) =
                  Cardinality({dp.components[k].id : k \in 1..Len(dp.components)})

\* the calls overlapped: one started after the other had written the storage
\* service and before it wrote the data product
C34_Witness ==
    /\ BothReturned("provision", "provision")
    /\ \A p \in Procs : result[p].type = "ProvisioningStatus"
    /\ Len(request[First].dp.components) = 2
    /\ cat0[Second] = EmptyCatalog
    /\ cat0[First]["storageService"] # {}
    /\ cat0[First]["dataProduct"] = {}
    /\ cat0[First]["container"] = {}

\* the containers of the output ports of dp that the catalog holds, by name
HeldContainers(dp) ==
    {key \in {<<default_storage_service_name, ".">> \o SpecComponentName(dp.components[k].id) :
                k \in 1..Len(dp.components)} : Held("container", key) > 0}
AllContainers(dp) ==
    {<<default_storage_service_name, ".">> \o SpecComponentName(dp.components[k].id) :
        k \in 1..Len(dp.components)}

\* a provision and an unprovision of one descriptor have both returned COMPLETED
BothCompleted ==
    /\ BothReturned("provision", "unprovision")
    /\ \A p \in Procs : result[p].type = "ProvisioningStatus" /\ result[p].status = COMPLETED

\* a container of the product without the product
Orphaned(dp) == Held("dataProduct", SpecDpName(dp.id)) = 0 /\ HeldContainers(dp) # {}

(* C35: provision and unprovision are not atomic with respect to each other. A
   provision and an unprovision of one descriptor that run at the same time and
   both return COMPLETED leave one of three catalogs: the data product with all its
   containers, neither the data product nor a container, or a container of the
   product without the data product; the last one is left only when the
   unprovision found the data product that the provision had written and deleted
   it as its last client call. *)
C35_NotAtomic ==
    BothCompleted =>
        LET dp == request[First].dp
            has_dp == Held("dataProduct", SpecDpName(dp.id)) = 1
        IN  \/ has_dp /\ HeldContainers(dp) = AllContainers(dp)
            \/ ~has_dp /\ HeldContainers(dp) = {}
            \/ /\ Orphaned(dp)
               /\ Last(client[Second]).call = "delete"
               /\ Last(client[Second]).etype = "dataProduct"

\* both calls returned COMPLETED, and the catalog holds a container of the product
\* and not the data product
C35_Witness ==
    /\ BothCompleted
    /\ Orphaned(request[First].dp)
    /\ Len(request[First].dp.components) = 2

\* the names of the entities of a type in a catalog
Names(cat, etype) == {e.fqn : e \in cat[etype]}

(* C36: provision never deletes. At every moment of a provision call its client
   calls are the lookup of the string type and upserts, every name the catalog held
   when the call started is still held, and a container that the call does not
   write, such as the one an earlier provision created for a component that the
   descriptor no longer lists, is the entity it was when the call started. *)
C36_ProvisionNeverDeletes ==
    \A p \in SeqProcs :
        Serving(p, "provision") =>
            /\ \A k \in 1..Len(client[p]) :
                  client[p][k].call \in
                      {"get", "create_or_update", "create_or_update_custom_property"}
            /\ \A etype \in EntityTypes : Names(cat0[p], etype) \subseteq Names(catalog, etype)
            /\ \A e \in cat0[p]["container"] :
                  e.fqn \notin ProductKeys(request[p].dp) => e \in catalog["container"]

\* a provision of ports A and B was followed by a provision of the descriptor
\* that lists B only, and the container of A is still there
C36_Witness ==
    \E p \in SeqProcs :
        /\ HasReturned(p, "provision")
        /\ result[p].type = "ProvisioningStatus"
        /\ prev.kind = "provision"
        /\ prev.outcome = "ProvisioningStatus"
        /\ prev.dp = DataProduct(<<PortA, PortB>>)
        /\ request[p].dp = DataProduct(<<PortB>>)
        /\ Names(catalog, "container") =
              {ContainerFqn(SpecComponentName(PortA.id)), ContainerFqn(SpecComponentName(PortB.id))}

(* C37: unprovision deletes only the containers of the output ports that the
   descriptor lists and the data product of its derived name. At every moment of an
   unprovision call the storage services, the domains and the custom properties are
   those of the start of the call, nothing was added, and every data product and
   container that is gone carries the derived name of the descriptor or of one of
   its output ports: the entities of other data products, and the containers of
   this one that the descriptor does not list, are the ones they were. *)
C37_UnprovisionDeletesOnlyItsOwn ==
    \A p \in SeqProcs :
        Serving(p, "unprovision") =>
            LET dp == request[p].dp
            IN  /\ \A etype \in {"storageService", "domain", "customProperty"} :
                      catalog[etype] = cat0[p][etype]
                /\ \A etype \in {"dataProduct", "container"} :
                      /\ catalog[etype] \subseteq cat0[p][etype]
                      /\ \A e \in cat0[p][etype] \ catalog[etype] : e.fqn \in ProductKeys(dp)

\* the data product and the container of port A are gone; the container of port B,
\* which the descriptor does not list, and the other data product are there
C37_Witness ==
    \E p \in SeqProcs :
        /\ HasReturned(p, "unprovision")
        /\ result[p].type = "ProvisioningStatus"
        /\ request[p].dp = DataProduct(<<PortA>>)
        /\ Names(cat0[p], "dataProduct") = {SpecDpName(DpUrn), SpecDpName(OtherUrn)}
        /\ Names(catalog, "dataProduct") = {SpecDpName(OtherUrn)}
        /\ Cardinality(cat0[p]["container"]) = 3
        /\ Names(catalog, "container") =
              {ContainerFqn(SpecComponentName(PortB.id)),
               ContainerFqn(SpecComponentName(OtherUrn \o <<"a">>))}
        /\ catalog["domain"] # {}

\* the ids of the data products and of the output ports that requests carry
ProductIds == {dp.id : dp \in ProductDescriptors}
PortIds == UNION {{dp.components[k].id : k \in 1..Len(dp.components)} : dp \in ProductDescriptors}

(* C38: derived names depend only on the segments 4 to 6 of a data product id and
   4 to 7 of an output port id. Ids that agree on these segments derive the same
   name, whatever their first three segments and the segments after; and a
   provision that returned COMPLETED leaves, under the name made of these segments,
   exactly one data product and one container per output port, with the content of
   its own descriptor, also when the catalog held under that name the entity of a
   descriptor with another id. *)
C38_NamesFromTheirSegments ==
    /\ \A id1, id2 \in ProductIds :
          SubSeq(id1, 4, 6) = SubSeq(id2, 4, 6) =>
              _get_dp_name_from_id(id1) = _get_dp_name_from_id(id2)
    /\ \A id1, id2 \in PortIds :
          SubSeq(id1, 4, 7) = SubSeq(id2, 4, 7) =>
              _get_component_name_from_id(id1) = _get_component_name_from_id(id2)
    /\ \A p \in SeqProcs :
          (HasReturned(p, "provision") /\ result[p].type = "ProvisioningStatus") =>
              LET dp == request[p].dp
              IN  /\ {e.displayName : e \in {x \in catalog["dataProduct"] :
                                                 x.fqn = SubSeq(dp.id, 4, 6)}} = {dp.name}
                  /\ Held("dataProduct", SubSeq(dp.id, 4, 6)) = 1
                  /\ \A k \in 1..Len(dp.components) :
                        LET key == <<default_storage_service_name, ".">>
                                   \o SubSeq(dp.components[k].id, 4, 7)
                        IN  /\ Held("container", key) = 1
                            /\ \E j \in k..Len(dp.components) :
                                  \E e \in catalog["container"] :
                                      e.fqn = key /\ e.displayName = dp.components[j].name

\* the data product and the container that DataProduct(<<PortA>>) had written are
\* now those of the descriptor with the other id
C38_Witness ==
    \E p \in SeqProcs :
        /\ HasReturned(p, "provision")
        /\ result[p].type = "ProvisioningStatus"
        /\ request[p].dp = AliasDescriptor
        /\ \E e \in cat0[p]["dataProduct"] :
              e.fqn = SpecDpName(DpUrn) /\ e.displayName = DataProduct(<<>>).name
        /\ \E e \in cat0[p]["container"] :
              e.fqn = ContainerFqn(SpecComponentName(PortA.id)) /\ e.displayName = PortA.name
        /\ \E e \in catalog["container"] :
              e.fqn = ContainerFqn(SpecComponentName(PortA.id)) /\ e.displayName = "Alias port"
        /\ Cardinality(catalog["dataProduct"]) = 1
        /\ Cardinality(catalog["container"]) = 1

\* the two reads of validate, in the order of the code
ValidateOrder ==
    <<GatewayCall("get_all_classification_tags", NoDp, NoPort, "", None),
      GatewayCall("get_all_glossary_terms", NoDp, NoPort, "", None)>>

(* C39: validate always reads the catalog, the classification tags first and the
   glossary terms second, whatever the descriptor references. A validate that has
   returned has read the tags; when that read raised it has issued nothing else
   and returns SystemErr; otherwise it has read the terms, and returns SystemErr
   when that read raised. This holds also for a descriptor whose columns carry no
   label. *)
C39_ValidateAlwaysReads ==
    \A p \in SeqProcs :
        Serving(p, "validate") =>
            /\ InOrder(calls[p], ValidateOrder)
            /\ pc[p] = "done" =>
                  /\ Len(calls[p]) >= 1
                  /\ calls[p][1].raised # None =>
                        /\ Len(calls[p]) = 1
                        /\ Len(client[p]) = 1
                        /\ result[p] = SystemErr(calls[p][1].raised[1])
                  /\ calls[p][1].raised = None =>
                        /\ Len(calls[p]) = 2
                        /\ calls[p][2].raised # None =>
                              result[p] = SystemErr(calls[p][2].raised[1])
                        /\ calls[p][2].raised = None => result[p].type # "SystemErr"

\* the descriptor has one output port, of an empty schema, and the read of the
\* glossary terms raised
C39_Witness ==
    \E p \in SeqProcs :
        /\ HasReturned(p, "validate")
        /\ request[p].dp = DataProduct(<<PortA2>>)
        /\ Len(calls[p]) = 2
        /\ calls[p][2].raised # None
        /\ result[p].type = "SystemErr"

\* the items of the pages 0 to last of a lookup, one page after the other, the
\* catalog listing all_terms to each of the lookups
RECURSIVE PagesUpTo(_, _, _, _)
PagesUpTo(cat, all_terms, lookup, last) ==
    IF last < 0 THEN <<>>
    ELSE PagesUpTo(cat, all_terms, lookup, last - 1)
         \o get_terms(cat, all_terms, NoFault, [lookup EXCEPT !.offset = last]).result.items

(* C40: for a lookup with a positive limit the pages are consistent. The page
   returned holds at most limit items; and the pages of the offsets 0, 1, 2, ...
   of the same lookup on the same listing, one after the other, are exactly the
   listed terms that have a fully qualified name and satisfy the filters supplied,
   each once and in the order listed, with nothing on the pages after them. *)
C40_PagesConsistent ==
    \A p \in SeqProcs :
        (ReturnedTerms(p) /\ http[p].body.limit > 0) =>
            LET lookup == http[p].body
                all_terms == ListedTerms(p)
                pages(last) == PagesUpTo(catalog, all_terms, lookup, last)
            IN  /\ Len(result[p].items) <= lookup.limit
                /\ result[p].items =
                      get_terms(catalog, all_terms, NoFault, lookup).result.items
                /\ ItemFqns(pages(Len(all_terms))) = FqnsOf(Eligible(all_terms, lookup))
                /\ pages(Len(all_terms) + 1) = pages(Len(all_terms))

\* pages of one term: the second page of a listing of two named terms
C40_Witness ==
    \E p \in SeqProcs :
        /\ ReturnedTerms(p)
        /\ http[p].body.limit = 1
        /\ http[p].body.offset = 1
        /\ http[p].body.filter = Some(<<"a">>)
        /\ ListedTerms(p) = <<TermA, TermAb>>
        /\ ItemFqns(result[p].items) = <<TermAb.fullyQualifiedName[1]>>

====
